---- MODULE Spec2Model ----
(***************************************************************************)
(* Model of the chat orchestration of jedi-team-challenge:                 *)
(*   core.ChatService   (CreateChat, PostMessage, generateAndSaveChatTitle) *)
(*   core.RAGService    (GetRelevantContext, GenerateResponse)              *)
(*   core.LLMService    (GetEmbedding, GetChatCompletion,                   *)
(*                       GenerateTitleForChat)                              *)
(*   store.SQLiteStore  (chats and messages tables and their queries)       *)
(*   utils.CosineSimilarity                                                 *)
(*                                                                         *)
(* Every HTTP request runs on its own goroutine; a request is one of the   *)
(* request slots of Procs.  A request is cut into one action per external  *)
(* call (database statement or gateway call), which are the points where   *)
(* goroutines interleave.  Title derivation runs as a detached goroutine,  *)
(* an element of titleTasks.                                               *)
(*                                                                         *)
(* Abstractions: strings are kept as opaque values; a formatted string is  *)
(* a record of its parts; a joined string is the sequence of its parts;    *)
(* float32 similarities are exact rationals num/sqrt(den2); time.Now() is  *)
(* a strictly increasing logical time; uuid.NewString() is a fresh number. *)
(***************************************************************************)
EXTENDS Integers, Sequences, FiniteSets, TLC

\* ------------------------------------------------------------------ bounds
\* The chat that exists initially holds 0..MaxInitTurns completed turns.
MaxInitTurns == 2
\* An index under retrieval holds at most MaxIndexLen chunks.
MaxIndexLen == 4

\* ------------------------------------------------------- program constants
NumRelevantChunks == 3
\* SimilarityThreshold = 0.7 as the fraction ThresholdNum / ThresholdDen
ThresholdNum == 7
ThresholdDen == 10
\* GenerateResponse asks for the last HistoryLimit messages
HistoryLimit == 5
\* PostMessage asks for the last TitleLookback messages before titling
TitleLookback == 2

PostMessageFallback == "I'm sorry, I encountered an error while processing your request."
CreateChatFallback == "I encountered an issue trying to respond. Please try again."
EmptyResponseText == "I'm sorry, I couldn't generate a response at this time. Please try again."
NonTextResponseText == "I received an empty or non-text response, please try rephrasing your question."

\* ------------------------------------------------------------ input sets
Procs == {"r1", "r2"}
ChatIds == {"c1", "c2"}
UserIds == {1, 2}
\* the text a request carries: each request has a text of its own
Contents == {"q1", "q2"}
RequestContents(p) == IF p = "r1" THEN {"q1"} ELSE Contents \ {"q1"}
\* NULL of a nullable column / a nil pointer
Null == "NULL"
\* what the generation gateway can do with a prompt
CompletionOutcomes == {"error", "no_candidates", "non_text", "empty_text", "text"}
ModelText == "a1"
\* what the embedding gateway can return for a query (<<>>: an error)
QueryEmbeddings == {<<1, 0>>, <<-1, 0>>}
\* what the title gateway can return: a sequence of characters, or an error
RawTitles == {<<"T1">>, <<"\"", "T2", "\"">>, <<".">>}
TitleCutset == {"\"", "'", "\n", "\r", "\t", " ", "."}

VARIABLES
  chats,       \* table chats: ChatIds -> [exists, user_id, title]
  messages,    \* table messages, in insertion order
  dataChunks,  \* RAGService.dataChunks
  req,         \* the request running in each slot: its position and locals
  titleTasks,  \* the detached generateAndSaveChatTitle goroutines
  dataChunksTable,  \* table data_chunks, in insertion order
  ingest       \* the run of IngestDataFromFile: its position and locals

vars == <<chats, messages, dataChunks, req, titleTasks, dataChunksTable, ingest>>


\* ------------------------------------------------------------ small helpers
Min(a, b) == IF a < b THEN a ELSE b

Take(s, n) == SubSeq(s, 1, Min(n, Len(s)))

\* sql.NullString / *string: a title column value
NullTitle == [valid |-> FALSE, string |-> <<>>]

ValidTitle(t) == [valid |-> TRUE, string |-> t]

\* chat.Title == nil || *chat.Title == ""
TitleUnset(t) == (~t.valid) \/ t.string = <<>>

\* ------------------------------------------------------------ store: chats
\* GetChatByID without the user_id condition
GetChatByID_AnyOwner(chatID, userID) ==
  IF chats[chatID].exists
    THEN [found |-> TRUE, Title |-> chats[chatID].title]
    ELSE [found |-> FALSE, Title |-> NullTitle]

\* SELECT ... FROM chats WHERE id = ? AND user_id = ?
\* (found = FALSE: sql.ErrNoRows, the nil chat)
GetChatByID(chatID, userID) ==
  IF chats[chatID].exists /\ chats[chatID].user_id = userID
    THEN [found |-> TRUE, Title |-> chats[chatID].title]
    ELSE [found |-> FALSE, Title |-> NullTitle]

\* the update without the user_id condition
UpdateChatTitle_AnyOwner(chatID, userID, title) ==
  IF chats[chatID].exists
    THEN [chats EXCEPT ![chatID].title = ValidTitle(title)]
    ELSE chats

\* UPDATE chats SET title = ? WHERE id = ? AND user_id = ?  (the new table)
UpdateChatTitle(chatID, userID, title) ==
  IF chats[chatID].exists /\ chats[chatID].user_id = userID
    THEN [chats EXCEPT ![chatID].title = ValidTitle(title)]
    ELSE chats

\* uuid.NewString() for a chat: an id no row uses
FreshChatIds == {c \in ChatIds : ~chats[c].exists}

\* --------------------------------------------------------- store: messages
\* CreateMessage: msg.ID = uuid.NewString(); msg.Timestamp = time.Now(); INSERT
NewMessage(chatID, sender, content) ==
  [id |-> Len(messages) + 1, chat_id |-> chatID, sender |-> sender,
   content |-> content, timestamp |-> Len(messages) + 1,
   negative_feedback |-> FALSE]

CreateMessage(chatID, sender, content) ==
  Append(messages, NewMessage(chatID, sender, content))

RECURSIVE OrderByTimestampDesc(_)
OrderByTimestampDesc(S) ==
  IF S = {} THEN <<>>
  ELSE LET m == CHOOSE x \in S : \A o \in S : o.timestamp <= x.timestamp
       IN <<m>> \o OrderByTimestampDesc(S \ {m})

\* SELECT ... WHERE chat_id = ? ORDER BY timestamp DESC LIMIT ?
GetLastNMessagesByChatID(chatID, n) ==
  Take(OrderByTimestampDesc({messages[i] : i \in
         {j \in 1..Len(messages) : messages[j].chat_id = chatID}}), n)

\* position of the message with this id in the table (0: not stored)
PositionOf(id) ==
  IF \E i \in 1..Len(messages) : messages[i].id = id
    THEN CHOOSE i \in 1..Len(messages) : messages[i].id = id
    ELSE 0


\* ------------------------------------------------------ store: data_chunks
\* the column embedding_json: the text json.Marshal writes for an embedding
\* (kind "array"), the empty string, or a text that is not a JSON array
MarshalEmbedding(embedding) == [kind |-> "array", values |-> embedding]

EmptyJSON == [kind |-> "empty", values |-> <<>>]

InvalidJSON == [kind |-> "invalid", values |-> <<>>]

\* json.Unmarshal into chunk.Embedding: the values and whether it failed
UnmarshalEmbedding(embeddingJSON) ==
  IF embeddingJSON.kind = "array"
    THEN [err |-> FALSE, values |-> embeddingJSON.values]
    ELSE [err |-> TRUE, values |-> <<>>]

\* one row of GetAllDataChunks: an empty or unreadable embedding_json gives
\* the chunk with a nil embedding
LoadChunk(row) ==
  [ID |-> row.ID, Content |-> row.Content,
   Embedding |-> IF row.EmbeddingJSON.kind = "empty" THEN <<>>
                 ELSE IF UnmarshalEmbedding(row.EmbeddingJSON).err THEN <<>>
                 ELSE UnmarshalEmbedding(row.EmbeddingJSON).values]

\* mutant for C30: a row whose embedding cannot be read aborts the load
GetAllDataChunks_AbortOnBadRow(table) ==
  IF \E i \in 1..Len(table) : table[i].EmbeddingJSON.kind # "array"
    THEN <<>>
    ELSE [i \in 1..Len(table) |-> LoadChunk(table[i])]

\* SELECT id, content, embedding_json FROM data_chunks
GetAllDataChunks(table) == [i \in 1..Len(table) |-> LoadChunk(table[i])]

\* createDataChunk: INSERT INTO data_chunks (content, embedding_json); the id
\* is the next value of the sequence, which ClearDataChunks resets
createDataChunk(table, content, embedding) ==
  Append(table, [ID |-> Len(table) + 1, Content |-> content,
                 EmbeddingJSON |-> MarshalEmbedding(embedding)])

\* the rows an index was loaded from
StoredRows(chunks) ==
  [i \in 1..Len(chunks) |->
     [ID |-> chunks[i].ID, Content |-> chunks[i].Content,
      EmbeddingJSON |-> IF Len(chunks[i].Embedding) = 0 THEN EmptyJSON
                        ELSE MarshalEmbedding(chunks[i].Embedding)]]

\* ------------------------------------------------------- cosine similarity
RECURSIVE SumProducts(_, _, _)
SumProducts(vec1, vec2, i) ==
  IF i > Len(vec1) THEN 0
  ELSE vec1[i] * vec2[i] + SumProducts(vec1, vec2, i + 1)

\* vectors of different dimensions have the product 0 and no error
dotProduct_NoLengthCheck(vec1, vec2) ==
  IF Len(vec1) # Len(vec2)
    THEN [err |-> "", value |-> 0]
    ELSE [err |-> "", value |-> SumProducts(vec1, vec2, 1)]

\* dotProduct: an error when the dimensions differ
dotProduct(vec1, vec2) ==
  IF Len(vec1) # Len(vec2)
    THEN [err |-> "vectors must have the same dimension", value |-> 0]
    ELSE [err |-> "", value |-> SumProducts(vec1, vec2, 1)]

\* the square of magnitude(vec)
magnitudeSquared(vec) == SumProducts(vec, vec, 1)

\* CosineSimilarity: the similarity is num / sqrt(den2)
CosineSimilarity(vec1, vec2) ==
  IF Len(vec1) = 0 \/ Len(vec2) = 0
    THEN [err |-> "vectors cannot be empty", num |-> 0, den2 |-> 1]
  ELSE IF dotProduct(vec1, vec2).err # ""
    THEN [err |-> dotProduct(vec1, vec2).err, num |-> 0, den2 |-> 1]
  ELSE IF magnitudeSquared(vec1) = 0 \/ magnitudeSquared(vec2) = 0
    THEN [err |-> "", num |-> 0, den2 |-> 1]
  ELSE [err |-> "", num |-> dotProduct(vec1, vec2).value,
        den2 |-> magnitudeSquared(vec1) * magnitudeSquared(vec2)]

\* similarity > SimilarityThreshold
AtLeastThreshold_Strict(sim) ==
  sim.num > 0 /\
  ThresholdDen * ThresholdDen * sim.num * sim.num >
    ThresholdNum * ThresholdNum * sim.den2

\* similarity >= SimilarityThreshold
AtLeastThreshold(sim) ==
  sim.num > 0 /\
  ThresholdDen * ThresholdDen * sim.num * sim.num >=
    ThresholdNum * ThresholdNum * sim.den2

\* a.Similarity > b.Similarity
SimilarityGreater(a, b) ==
  IF a.num > 0 /\ b.num > 0 THEN a.num * a.num * b.den2 > b.num * b.num * a.den2
  ELSE IF a.num < 0 /\ b.num < 0 THEN a.num * a.num * b.den2 < b.num * b.num * a.den2
  ELSE a.num > b.num

\* ---------------------------------------------------------------- retrieval
\* a chunk without a usable embedding ends the query with nothing kept
RECURSIVE ScoreChunks_AbortOnBadChunk(_, _, _)
ScoreChunks_AbortOnBadChunk(chunks, queryEmbedding, i) ==
  IF i > Len(chunks) THEN <<>>
  ELSE IF \E k \in i..Len(chunks) :
            Len(chunks[k].Embedding) # Len(queryEmbedding) THEN <<>>
  ELSE LET sim == CosineSimilarity(queryEmbedding, chunks[i].Embedding)
           rest == ScoreChunks_AbortOnBadChunk(chunks, queryEmbedding, i + 1)
       IN IF AtLeastThreshold(sim)
            THEN <<[Chunk |-> chunks[i], Similarity |-> sim]>> \o rest
          ELSE rest

\* the loop of GetRelevantContext: the chunks kept, in index order
RECURSIVE ScoreChunks(_, _, _)
ScoreChunks(chunks, queryEmbedding, i) ==
  IF i > Len(chunks) THEN <<>>
  ELSE LET chunk == chunks[i]
           sim == CosineSimilarity(queryEmbedding, chunk.Embedding)
           rest == ScoreChunks(chunks, queryEmbedding, i + 1)
       IN IF Len(chunk.Embedding) = 0 THEN rest
          ELSE IF sim.err # "" THEN rest
          ELSE IF AtLeastThreshold(sim)
            THEN <<[Chunk |-> chunk, Similarity |-> sim]>> \o rest
          ELSE rest

\* sort.Slice with less = Similarity greater: not stable, so every
\* arrangement that is descending in similarity is a possible result
SortedOrders(scored) ==
  LET n == Len(scored)
      perms == {f \in [1..n -> 1..n] : \A i, j \in 1..n : i # j => f[i] # f[j]}
  IN {[i \in 1..n |-> scored[f[i]]] : f \in
        {g \in perms : \A i \in 1..n : \A j \in 1..n :
           i < j => ~SimilarityGreater(scored[g[j]].Similarity,
                                       scored[g[i]].Similarity)}}

\* the contents of all the chunks kept, without the limit
BuildContext_NoLimit(sorted) ==
  [i \in 1..Len(sorted) |-> sorted[i].Chunk.Content]

\* the contents of the first NumRelevantChunks chunks, joined by "\n\n" and
\* trimmed: kept as the sequence of the contents (<<>> is the empty string)
BuildContext(sorted) ==
  [i \in 1..Min(NumRelevantChunks, Len(sorted)) |-> sorted[i].Chunk.Content]

\* what GetRelevantContext can return once the embedding gateway has answered
RankedContexts(chunks, queryEmbedding) ==
  {BuildContext(sorted) : sorted \in
     SortedOrders(ScoreChunks(chunks, queryEmbedding, 1))}

\* ------------------------------------------------------------------- prompt
\* a genai.Text: a plain string, or one of the two formats of the final turn
PlainText(content) == [form |-> "plain", context |-> <<>>, question |-> content]

\* the final turn always takes the context form
FinalUserContent_AlwaysContext(relevantContext, userQuery) ==
  [form |-> "context_and_question", context |-> relevantContext,
   question |-> userQuery]

\* finalUserContent of GenerateResponse
FinalUserContent(relevantContext, userQuery) ==
  IF relevantContext # <<>>
    THEN [form |-> "context_and_question", context |-> relevantContext,
          question |-> userQuery]
    ELSE [form |-> "question_only", context |-> <<>>, question |-> userQuery]

\* geminiChatHistory of GenerateResponse
GeminiChatHistory(chatHistoryMsgs, relevantContext, userQuery) ==
  [i \in 1..Len(chatHistoryMsgs) |->
     [Role |-> chatHistoryMsgs[i].sender,
      Text |-> PlainText(chatHistoryMsgs[i].content)]]
  \o <<[Role |-> "user", Text |-> FinalUserContent(relevantContext, userQuery)]>>

\* responseText after the loop over the parts of the first candidate (part_002
\* lines 100-107): parts that are not text add nothing, text parts add their
\* text, which can be empty
ResponseText(outcome) == IF outcome = "text" THEN ModelText ELSE ""

\* mutant for C33: the text of the response is returned as it is
GetChatCompletion_ReturnsEmpty(promptHistory, outcome) ==
  IF Len(promptHistory) = 0 THEN [err |-> TRUE, text |-> ""]
  ELSE IF promptHistory[Len(promptHistory)].Role # "user"
    THEN [err |-> TRUE, text |-> ""]
  ELSE IF outcome = "error" THEN [err |-> TRUE, text |-> ""]
  ELSE IF outcome = "no_candidates" THEN [err |-> FALSE, text |-> EmptyResponseText]
  ELSE [err |-> FALSE, text |-> ResponseText(outcome)]

\* GetChatCompletion: the text and whether it is an error
GetChatCompletion(promptHistory, outcome) ==
  IF Len(promptHistory) = 0 THEN [err |-> TRUE, text |-> ""]
  ELSE IF promptHistory[Len(promptHistory)].Role # "user"
    THEN [err |-> TRUE, text |-> ""]
  ELSE IF outcome = "error" THEN [err |-> TRUE, text |-> ""]
  ELSE IF outcome = "no_candidates" THEN [err |-> FALSE, text |-> EmptyResponseText]
  ELSE IF ResponseText(outcome) = ""
    THEN [err |-> FALSE, text |-> NonTextResponseText]
  ELSE [err |-> FALSE, text |-> ResponseText(outcome)]

\* strings.Trim(title, cutset)
RECURSIVE TrimLeft(_)
TrimLeft(s) ==
  IF s # <<>> /\ Head(s) \in TitleCutset THEN TrimLeft(Tail(s)) ELSE s

RECURSIVE TrimRight(_)
TrimRight(s) ==
  IF s # <<>> /\ s[Len(s)] \in TitleCutset
    THEN TrimRight(SubSeq(s, 1, Len(s) - 1)) ELSE s

Trim(s) == TrimRight(TrimLeft(s))


\* ------------------------------------------------------------ initial state
\* a chat that already holds k completed turns
InitMessages(k) ==
  [i \in 1..(2 * k) |->
     [id |-> i, chat_id |-> "c1",
      sender |-> IF i % 2 = 1 THEN "user" ELSE "model",
      content |-> IF i % 2 = 1 THEN "q0" ELSE ModelText,
      timestamp |-> i, negative_feedback |-> FALSE]]

\* the chunks NewRAGService loaded; the last one has no embedding
LoadedChunks ==
  <<[ID |-> 1, Content |-> "Paris is the capital of France", Embedding |-> <<1, 0>>],
    [ID |-> 2, Content |-> "The sky is blue", Embedding |-> <<0, 1>>],
    [ID |-> 3, Content |-> "Berlin is the capital of Germany", Embedding |-> <<4, 3>>],
    [ID |-> 4, Content |-> "Lost embedding", Embedding |-> <<>>]>>

\* the locals of an ingestion run that has not started
IdleIngest ==
  [pc |-> "idle", rawChunks |-> <<>>, i |-> 0, count |-> 0, cleared |-> FALSE,
   result |-> "none"]

\* the locals of a request that has not started
IdleRequest ==
  [pc |-> "idle", op |-> "none", chatID |-> Null, userID |-> 0,
   messageID |-> 0, feedbackErr |-> "", content |-> "",
   chatTitle |-> NullTitle,
   userMsgID |-> 0, storeUserErr |-> FALSE,
   history |-> <<>>, historyRead |-> FALSE, historyErr |-> FALSE,
   embedCalled |-> FALSE, embedErr |-> FALSE, queryEmbedding |-> <<>>,
   context |-> <<>>,
   prompt |-> <<>>, generateCalled |-> FALSE, generateErr |-> FALSE,
   modelContent |-> "", modelMsgID |-> 0, storeModelErr |-> FALSE,
   titleScheduled |-> FALSE, result |-> "none"]

\* the function's locals die when it returns: what stays is the result, the
\* ids of the rows it wrote and which calls it made
Return(r, result) ==
  [r EXCEPT !.pc = "done", !.result = result, !.content = "",
            !.chatTitle = NullTitle, !.history = <<>>, !.historyErr = FALSE,
            !.embedErr = FALSE, !.context = <<>>, !.prompt = <<>>,
            !.modelContent = ""]

Init ==
  /\ chats = [c \in ChatIds |->
       IF c = "c1" THEN [exists |-> TRUE, user_id |-> 1, title |-> NullTitle]
       ELSE [exists |-> FALSE, user_id |-> 0, title |-> NullTitle]]
  /\ messages \in {InitMessages(0), InitMessages(MaxInitTurns)}
  /\ dataChunks \in {<<>>, LoadedChunks}
  /\ req = [p \in Procs |-> IdleRequest]
  /\ titleTasks = {}
  /\ dataChunksTable = StoredRows(dataChunks)
  /\ ingest = IdleIngest

\* go s.generateAndSaveChatTitle(chatID, userID, basisContent)
NewTitleTask(p, chatID, userID, basisContent) ==
  [by |-> p, chatID |-> chatID, userID |-> userID,
   basisContent |-> basisContent]

\* ------------------------------------------------------------- PostMessage
\* PostMessage up to the chat lookup (lines 100-110)
PM_GetChat(p, chatID, userID, userContent) ==
  /\ req[p].pc = "idle"
  /\ \E dbErr \in BOOLEAN :
       LET chat == GetChatByID(chatID, userID)
           started == [req[p] EXCEPT !.op = "PostMessage", !.chatID = chatID,
                         !.userID = userID, !.content = userContent]
       IN req' = [req EXCEPT ![p] =
            IF dbErr THEN Return(started, "failed to verify chat")
            ELSE IF ~chat.found THEN Return(started, "chat not found")
            ELSE [started EXCEPT !.pc = "pm_store_user", !.chatTitle = chat.Title]]
  /\ UNCHANGED <<chats, messages, dataChunks, titleTasks, dataChunksTable, ingest>>

\* a failed insert of the user message is logged and the turn goes on
PM_StoreUser_Continue(p) ==
  /\ req[p].pc = "pm_store_user"
  /\ \E dbErr \in BOOLEAN :
       IF dbErr
         THEN /\ req' = [req EXCEPT ![p].pc = "gr_history",
                           ![p].storeUserErr = TRUE]
              /\ UNCHANGED messages
         ELSE /\ messages' = CreateMessage(req[p].chatID, "user", req[p].content)
              /\ req' = [req EXCEPT ![p].pc = "gr_history",
                           ![p].userMsgID = NewMessage(req[p].chatID, "user",
                                                       req[p].content).id]
  /\ UNCHANGED <<chats, dataChunks, titleTasks, dataChunksTable, ingest>>

\* the user message is not stored before the response is generated
PM_StoreUser_Skipped(p) ==
  /\ req[p].pc = "pm_store_user"
  /\ req' = [req EXCEPT ![p].pc = "gr_history"]
  /\ UNCHANGED <<chats, messages, dataChunks, titleTasks, dataChunksTable, ingest>>

\* store the user message (lines 112-120)
PM_StoreUser(p) ==
  /\ req[p].pc = "pm_store_user"
  /\ \E dbErr \in BOOLEAN :
       IF dbErr
         THEN /\ req' = [req EXCEPT ![p] =
                   Return([req[p] EXCEPT !.storeUserErr = TRUE],
                          "failed to store user message")]
              /\ UNCHANGED messages
         ELSE /\ messages' = CreateMessage(req[p].chatID, "user", req[p].content)
              /\ req' = [req EXCEPT ![p].pc = "gr_history",
                           ![p].userMsgID = NewMessage(req[p].chatID, "user",
                                                       req[p].content).id]
  /\ UNCHANGED <<chats, dataChunks, titleTasks, dataChunksTable, ingest>>

\* -------------------------------------------------------- GenerateResponse
\* a failed history read ends GenerateResponse with an error, which the
\* caller turns into a failed request
GR_History_FailTurn(p) ==
  /\ req[p].pc = "gr_history"
  /\ \E dbErr \in BOOLEAN :
       req' = [req EXCEPT ![p] =
         IF dbErr
           THEN Return([req[p] EXCEPT !.historyRead = TRUE, !.historyErr = TRUE],
                       "failed to get chat history")
           ELSE [req[p] EXCEPT !.pc = "gr_context", !.historyRead = TRUE,
                   !.history = GetLastNMessagesByChatID(req[p].chatID, HistoryLimit)]]
  /\ UNCHANGED <<chats, messages, dataChunks, titleTasks, dataChunksTable, ingest>>

\* 1. chat history (lines 99-104)
GR_History(p) ==
  /\ req[p].pc = "gr_history"
  /\ \E dbErr \in BOOLEAN :
       req' = [req EXCEPT ![p].pc = "gr_context",
                 ![p].historyRead = TRUE,
                 ![p].historyErr = dbErr,
                 ![p].history = IF dbErr THEN <<>>
                                ELSE GetLastNMessagesByChatID(req[p].chatID, HistoryLimit)]
  /\ UNCHANGED <<chats, messages, dataChunks, titleTasks, dataChunksTable, ingest>>

\* the caller stores what GenerateResponse returned, error or not
ModelContentFor_NoFallback(op, completion) == completion.text

\* modelContent in PostMessage / CreateChat after GenerateResponse returned
ModelContentFor(op, completion) ==
  IF completion.err
    THEN (IF op = "PostMessage" THEN PostMessageFallback ELSE CreateChatFallback)
    ELSE completion.text

\* a failed completion ends the request with an error
Completed_AbortOnError(r, embedCalled, embedErr, relevantContext, outcome) ==
  LET promptHistory == GeminiChatHistory(r.history, relevantContext, r.content)
      completion == GetChatCompletion(promptHistory, outcome)
      next == [r EXCEPT !.pc = "store_model",
                 !.embedCalled = embedCalled, !.embedErr = embedErr,
                 !.context = relevantContext, !.prompt = promptHistory,
                 !.generateCalled = TRUE, !.generateErr = completion.err,
                 !.modelContent = ModelContentFor(r.op, completion)]
  IN IF completion.err THEN Return(next, "failed to get LLM completion") ELSE next

\* the request after steps 3.-4.: the prompt is built and sent to the
\* gateway (lines 115-146), and the caller replaces an error by its canned
\* text (PostMessage 123-128, CreateChat 54-59)
Completed(r, embedCalled, embedErr, relevantContext, outcome) ==
  LET promptHistory == GeminiChatHistory(r.history, relevantContext, r.content)
      completion == GetChatCompletion(promptHistory, outcome)
  IN [r EXCEPT !.pc = "store_model",
               !.embedCalled = embedCalled,
               !.embedErr = embedErr,
               !.context = relevantContext,
               !.prompt = promptHistory,
               !.generateCalled = TRUE,
               !.generateErr = completion.err,
               !.modelContent = ModelContentFor(r.op, completion)]

\* a failed query embedding ends GenerateResponse before the gateway is called
GR_Generate_FailOnEmbedding(p) ==
  /\ req[p].pc = "gr_context"
  /\ \E outcome \in CompletionOutcomes :
       IF Len(dataChunks) = 0
         THEN req' = [req EXCEPT ![p] = Completed(req[p], FALSE, FALSE, <<>>, outcome)]
         ELSE \/ req' = [req EXCEPT ![p].pc = "store_model",
                           ![p].embedCalled = TRUE, ![p].embedErr = TRUE,
                           ![p].generateErr = TRUE,
                           ![p].modelContent =
                             ModelContentFor(req[p].op, [err |-> TRUE, text |-> ""])]
              \/ \E queryEmbedding \in QueryEmbeddings :
                   \E relevantContext \in RankedContexts(dataChunks, queryEmbedding) :
                     req' = [req EXCEPT ![p] =
                               Completed(req[p], TRUE, FALSE, relevantContext,
                                         outcome)]
  /\ UNCHANGED <<chats, messages, dataChunks, titleTasks, dataChunksTable, ingest>>

\* an empty index does not return early: the query is embedded first
GR_Generate_EmbedsOnEmptyIndex(p) ==
  /\ req[p].pc = "gr_context"
  /\ \E outcome \in CompletionOutcomes :
       \/ req' = [req EXCEPT ![p] = Completed(req[p], TRUE, TRUE, <<>>, outcome)]
       \/ \E queryEmbedding \in QueryEmbeddings :
            \E relevantContext \in RankedContexts(dataChunks, queryEmbedding) :
              req' = [req EXCEPT ![p] =
                        Completed(req[p], TRUE, FALSE, relevantContext, outcome)]
  /\ UNCHANGED <<chats, messages, dataChunks, titleTasks, dataChunksTable, ingest>>

\* 2.-4. GetRelevantContext (lines 48-96, 106-113), then the prompt and the
\* gateway call.  The gateway calls read and write nothing that is shared,
\* so they are one step with the ranking.
GR_Generate(p) ==
  /\ req[p].pc = "gr_context"
  /\ \E outcome \in CompletionOutcomes :
       IF Len(dataChunks) = 0
         THEN req' = [req EXCEPT ![p] = Completed(req[p], FALSE, FALSE, <<>>, outcome)]
         ELSE \/ req' = [req EXCEPT ![p] = Completed(req[p], TRUE, TRUE, <<>>, outcome)]
              \/ \E queryEmbedding \in QueryEmbeddings :
                   \E relevantContext \in RankedContexts(dataChunks, queryEmbedding) :
                     req' = [req EXCEPT ![p] =
                               Completed(req[p], TRUE, FALSE, relevantContext,
                                         outcome)]
  /\ UNCHANGED <<chats, messages, dataChunks, titleTasks, dataChunksTable, ingest>>

\* ------------------------------------------------- PostMessage, continued
\* mutant for C34: a failed insert of the model message is only logged
PM_StoreModel_ContinueOnFailure(p) ==
  /\ req[p].pc = "store_model"
  /\ req[p].op = "PostMessage"
  /\ \E dbErr \in BOOLEAN :
       IF dbErr
         THEN /\ req' = [req EXCEPT ![p] =
                   IF TitleUnset(req[p].chatTitle)
                     THEN [req[p] EXCEPT !.storeModelErr = TRUE, !.pc = "pm_title"]
                     ELSE Return([req[p] EXCEPT !.storeModelErr = TRUE], "ok")]
              /\ UNCHANGED messages
         ELSE /\ messages' = CreateMessage(req[p].chatID, "model", req[p].modelContent)
              /\ LET stored == [req[p] EXCEPT !.modelMsgID =
                                  NewMessage(req[p].chatID, "model",
                                             req[p].modelContent).id]
                 IN req' = [req EXCEPT ![p] =
                      IF TitleUnset(req[p].chatTitle)
                        THEN [stored EXCEPT !.pc = "pm_title"]
                        ELSE Return(stored, "ok")]
  /\ UNCHANGED <<chats, dataChunks, titleTasks, dataChunksTable, ingest>>

\* store the model message (lines 130-138); a chat that had a title when it
\* was read returns at once (line 142)
PM_StoreModel(p) ==
  /\ req[p].pc = "store_model"
  /\ req[p].op = "PostMessage"
  /\ \E dbErr \in BOOLEAN :
       IF dbErr
         THEN /\ req' = [req EXCEPT ![p] =
                   Return([req[p] EXCEPT !.storeModelErr = TRUE],
                          "failed to store model message")]
              /\ UNCHANGED messages
         ELSE /\ messages' = CreateMessage(req[p].chatID, "model", req[p].modelContent)
              /\ LET stored == [req[p] EXCEPT !.modelMsgID =
                                  NewMessage(req[p].chatID, "model",
                                             req[p].modelContent).id]
                 IN req' = [req EXCEPT ![p] =
                      IF TitleUnset(req[p].chatTitle)
                        THEN [stored EXCEPT !.pc = "pm_title"]
                        ELSE Return(stored, "ok")]
  /\ UNCHANGED <<chats, dataChunks, titleTasks, dataChunksTable, ingest>>

\* the content of the first message of sender "user", "" when there is none
RECURSIVE FirstUserContent(_)
FirstUserContent(msgs) ==
  IF msgs = <<>> THEN ""
  ELSE IF Head(msgs).sender = "user" THEN Head(msgs).content
  ELSE FirstUserContent(Tail(msgs))

\* the title is derived and written inside the request, which reports how
\* that went
PM_Title_Synchronous(p) ==
  /\ req[p].pc = "pm_title"
  /\ \/ /\ req' = [req EXCEPT ![p] = Return(req[p], "failed to generate title")]
        /\ UNCHANGED chats
     \/ \E raw \in RawTitles :
          /\ chats' = UpdateChatTitle(req[p].chatID, req[p].userID, Trim(raw))
          /\ req' = [req EXCEPT ![p] = Return(req[p], "ok")]
  /\ UNCHANGED <<titleTasks, messages, dataChunks, dataChunksTable, ingest>>

\* the title check of an untitled chat (lines 142-159)
PM_Title(p) ==
  /\ req[p].pc = "pm_title"
  /\ \E dbErr \in BOOLEAN :
       LET msgs == IF dbErr THEN <<>>
                   ELSE GetLastNMessagesByChatID(req[p].chatID, TitleLookback)
           firstUserMessageContent == FirstUserContent(msgs)
           schedule == Len(msgs) >= 1 /\ firstUserMessageContent # ""
       IN /\ titleTasks' = IF schedule
               THEN titleTasks \cup {NewTitleTask(p, req[p].chatID, req[p].userID,
                                                  firstUserMessageContent)}
               ELSE titleTasks
          /\ req' = [req EXCEPT ![p] =
               Return([req[p] EXCEPT !.titleScheduled = schedule], "ok")]
  /\ UNCHANGED <<chats, messages, dataChunks, dataChunksTable, ingest>>

\* -------------------------------------------------------------- CreateChat
\* firstMessageContent: nil, "" or a text
FirstMessages(p) == RequestContents(p) \cup {"", Null}

\* create the chat row (lines 30-40); without a first message return it
CC_CreateChat(p, userID, firstMessageContent) ==
  /\ req[p].pc = "idle"
  /\ FreshChatIds # {}
  /\ \E dbErr \in BOOLEAN :
       LET chatID == CHOOSE c \in FreshChatIds : TRUE
           started == [req[p] EXCEPT !.op = "CreateChat", !.userID = userID,
                         !.content = IF firstMessageContent = Null THEN ""
                                     ELSE firstMessageContent]
       IN IF dbErr
            THEN /\ req' = [req EXCEPT ![p] =
                      Return(started, "failed to create chat in DB")]
                 /\ UNCHANGED chats
            ELSE /\ chats' = [chats EXCEPT ![chatID] =
                      [exists |-> TRUE, user_id |-> userID, title |-> NullTitle]]
                 /\ req' = [req EXCEPT ![p] =
                      IF firstMessageContent \in {"", Null}
                        THEN Return([started EXCEPT !.chatID = chatID], "ok")
                        ELSE [started EXCEPT !.chatID = chatID,
                                             !.pc = "cc_store_user"]]
  /\ UNCHANGED <<messages, dataChunks, titleTasks, dataChunksTable, ingest>>

\* store the first user message (lines 41-51); a failure is logged and the
\* chat is returned without messages (line 77)
CC_StoreUser(p) ==
  /\ req[p].pc = "cc_store_user"
  /\ \E dbErr \in BOOLEAN :
       IF dbErr
         THEN /\ req' = [req EXCEPT ![p] =
                   Return([req[p] EXCEPT !.storeUserErr = TRUE], "ok")]
              /\ UNCHANGED messages
         ELSE /\ messages' = CreateMessage(req[p].chatID, "user", req[p].content)
              /\ req' = [req EXCEPT ![p].pc = "gr_history",
                           ![p].userMsgID = NewMessage(req[p].chatID, "user",
                                                       req[p].content).id]
  /\ UNCHANGED <<chats, dataChunks, titleTasks, dataChunksTable, ingest>>

\* store the model message, start the title goroutine, return (lines 61-77)
CC_StoreModel(p) ==
  /\ req[p].pc = "store_model"
  /\ req[p].op = "CreateChat"
  /\ \E dbErr \in BOOLEAN :
       IF dbErr
         THEN /\ req' = [req EXCEPT ![p] =
                   Return([req[p] EXCEPT !.storeModelErr = TRUE,
                                         !.titleScheduled = TRUE], "ok")]
              /\ UNCHANGED messages
         ELSE /\ messages' = CreateMessage(req[p].chatID, "model", req[p].modelContent)
              /\ req' = [req EXCEPT ![p] =
                   Return([req[p] EXCEPT !.titleScheduled = TRUE,
                             !.modelMsgID = NewMessage(req[p].chatID, "model",
                                                       req[p].modelContent).id],
                          "ok")]
  /\ titleTasks' = titleTasks \cup
       {NewTitleTask(p, req[p].chatID, req[p].userID, req[p].content)}
  /\ UNCHANGED <<chats, dataChunks, dataChunksTable, ingest>>

\* ---------------------------------------------- generateAndSaveChatTitle
\* the title GenerateTitleForChat returns for the gateway's text (part_002
\* line 155), trimmed again by generateAndSaveChatTitle (line 169)
DerivedTitle(raw) == Trim(Trim(raw))

\* the goroutine stays scheduled after its update and can write again
TT_Run_Repeats(t) ==
  /\ t \in titleTasks
  /\ \E raw \in RawTitles :
       chats' = UpdateChatTitle(t.chatID, t.userID, DerivedTitle(raw))
  /\ UNCHANGED <<titleTasks, messages, dataChunks, req, dataChunksTable, ingest>>

\* what the title gateway can answer: a failed request, a response without
\* candidates or parts, a response without a text part, or a text
TitleResponses ==
  {[kind |-> k, text |-> <<>>] : k \in {"error", "no_candidates", "no_text"}}
  \cup {[kind |-> "text", text |-> raw] : raw \in RawTitles}

\* an empty response is reported as the title "Chat" together with no error
GenerateTitleForChat_DefaultOnEmpty(response) ==
  IF response.kind = "error" THEN [err |-> TRUE, title |-> <<>>]
  ELSE IF response.kind \in {"no_candidates", "no_text"}
    THEN [err |-> FALSE, title |-> <<"Chat">>]
  ELSE [err |-> FALSE, title |-> Trim(response.text)]

\* GenerateTitleForChat: the title and whether it is an error
GenerateTitleForChat(response) ==
  IF response.kind = "error" THEN [err |-> TRUE, title |-> <<>>]
  ELSE IF response.kind \in {"no_candidates", "no_text"}
    THEN [err |-> TRUE, title |-> <<"Chat">>]
  ELSE [err |-> FALSE, title |-> Trim(response.text)]

\* the chats table after generateAndSaveChatTitle: an error of the gateway
\* ends it without a write (lines 164-168); else the title is trimmed and
\* UpdateChatTitle is called, whose error is only logged (lines 169-176)
generateAndSaveChatTitle(t, response, dbErr) ==
  LET generated == GenerateTitleForChat(response)
  IN IF generated.err THEN chats
     ELSE IF dbErr THEN chats
     ELSE UpdateChatTitle(t.chatID, t.userID, Trim(generated.title))

\* the goroutine.  The gateway call shares nothing, so it is one step with
\* the update.
TT_Run(t) ==
  /\ t \in titleTasks
  /\ \E response \in TitleResponses, dbErr \in BOOLEAN :
       chats' = generateAndSaveChatTitle(t, response, dbErr)
  /\ titleTasks' = titleTasks \ {t}
  /\ UNCHANGED <<messages, dataChunks, req, dataChunksTable, ingest>>

\* ------------------------------------------------------------ specification
Next ==
  \/ \E p \in Procs, chatID \in ChatIds, userID \in UserIds :
       \E userContent \in RequestContents(p) :
         PM_GetChat(p, chatID, userID, userContent)
  \/ \E p \in Procs : PM_StoreUser(p)
  \/ \E p \in Procs : GR_History(p)
  \/ \E p \in Procs : GR_Generate(p)
  \/ \E p \in Procs : PM_StoreModel(p)
  \/ \E p \in Procs : PM_Title(p)
  \/ \E p \in Procs, userID \in UserIds :
       \E firstMessageContent \in FirstMessages(p) :
         CC_CreateChat(p, userID, firstMessageContent)
  \/ \E p \in Procs : CC_StoreUser(p)
  \/ \E p \in Procs : CC_StoreModel(p)
  \/ \E t \in titleTasks : TT_Run(t)

Spec == Init /\ [][Next]_vars

\* ------------------------------------- the title goroutine on any arguments
\* generateAndSaveChatTitle(chatID, userID, basisContent) called with every
\* pair of a chat id and a user id, on every chats table: rows that exist or
\* not, owned by either user, with or without a title
ChatRows ==
  {[exists |-> FALSE, user_id |-> 0, title |-> NullTitle]} \cup
  {[exists |-> TRUE, user_id |-> u, title |-> t] :
     u \in UserIds, t \in {NullTitle, ValidTitle(<<"T0">>)}}

TitleTaskInputs ==
  {NewTitleTask("r1", c, u, "q1") : c \in ChatIds, u \in UserIds}

TitleTaskInit ==
  /\ chats \in [ChatIds -> ChatRows]
  /\ messages \in {InitMessages(0), InitMessages(MaxInitTurns)}
  /\ dataChunks = <<>>
  /\ req = [p \in Procs |-> IdleRequest]
  /\ titleTasks = TitleTaskInputs
  /\ dataChunksTable = <<>>
  /\ ingest = IdleIngest

TitleTaskNext == \E t \in titleTasks : TT_Run(t)

TitleTaskSpec == TitleTaskInit /\ [][TitleTaskNext]_vars

\* ------------------------------------------- GetRelevantContext on any index
\* GetRelevantContext(query) called on every index made of the chunks of
\* ChunkPool, for every embedding the gateway returns for the query.  The
\* embeddings have whole magnitudes, so that the float32 similarity is the
\* exact quotient: against <<1, 0, 0, 0>> the chunks score 1, 0.8, 0.7, 1,
\* 0, 0.6, 0.5; two chunks have no usable embedding.
ChunkPool ==
  <<[ID |-> 1, Content |-> "Paris is the capital of France", Embedding |-> <<1, 0, 0, 0>>],
    [ID |-> 2, Content |-> "Berlin is the capital of Germany", Embedding |-> <<4, 3, 0, 0>>],
    [ID |-> 3, Content |-> "Bern is the capital of Switzerland", Embedding |-> <<7, 1, 1, 7>>],
    [ID |-> 4, Content |-> "Rome is the capital of Italy", Embedding |-> <<2, 0, 0, 0>>],
    [ID |-> 5, Content |-> "The sky is blue", Embedding |-> <<0, 1, 0, 0>>],
    [ID |-> 6, Content |-> "Oslo is far north", Embedding |-> <<3, 4, 0, 0>>],
    [ID |-> 7, Content |-> "Water is wet", Embedding |-> <<1, 1, 1, 1>>],
    [ID |-> 8, Content |-> "Lost embedding", Embedding |-> <<>>],
    [ID |-> 9, Content |-> "Old embedding", Embedding |-> <<1, 0>>]>>

\* the chunks of ChunkPool at the positions S, in the order of the table
RECURSIVE SubIndex(_, _)
SubIndex(S, i) ==
  IF i > Len(ChunkPool) THEN <<>>
  ELSE (IF i \in S THEN <<ChunkPool[i]>> ELSE <<>>) \o SubIndex(S, i + 1)

RetrievalIndexes ==
  {SubIndex(S, 1) : S \in {T \in SUBSET (1..Len(ChunkPool)) :
                              Cardinality(T) <= MaxIndexLen}}

\* what the embedding gateway can return for the query
RetrievalQueries ==
  {<<1, 0, 0, 0>>, <<0, 1, 0, 0>>, <<-1, 0, 0, 0>>, <<0, 0, 0, 0>>}

RetrievalInit ==
  /\ chats = [c \in ChatIds |-> [exists |-> FALSE, user_id |-> 0, title |-> NullTitle]]
  /\ messages = <<>>
  /\ dataChunks \in RetrievalIndexes
  /\ req = [p \in Procs |-> IdleRequest]
  /\ titleTasks = {}
  /\ dataChunksTable = StoredRows(dataChunks)
  /\ ingest = IdleIngest

\* the call has returned: its embedding, its context and its error
Retrieved(r, embedCalled, embedErr, queryEmbedding, relevantContext) ==
  [r EXCEPT !.pc = "done", !.op = "GetRelevantContext",
            !.embedCalled = embedCalled, !.embedErr = embedErr,
            !.queryEmbedding = queryEmbedding, !.context = relevantContext,
            !.result = IF embedErr THEN "failed to get query embedding" ELSE "ok"]

\* GetRelevantContext (lines 48-96)
GetRelevantContext(p) ==
  /\ req[p].pc = "idle"
  /\ IF Len(dataChunks) = 0
       THEN req' = [req EXCEPT ![p] = Retrieved(req[p], FALSE, FALSE, <<>>, <<>>)]
       ELSE \/ req' = [req EXCEPT ![p] = Retrieved(req[p], TRUE, TRUE, <<>>, <<>>)]
            \/ \E queryEmbedding \in RetrievalQueries :
                 \E relevantContext \in RankedContexts(dataChunks, queryEmbedding) :
                   req' = [req EXCEPT ![p] =
                             Retrieved(req[p], TRUE, FALSE, queryEmbedding,
                                       relevantContext)]
  /\ UNCHANGED <<chats, messages, dataChunks, titleTasks, dataChunksTable, ingest>>

RetrievalNext == \E p \in Procs : GetRelevantContext(p)

RetrievalSpec == RetrievalInit /\ [][RetrievalNext]_vars

\* ------------------------------------------------------ IngestDataFromFile
\* a line of the data file, by what the parser tests: blank after trimming;
\* a table row holding "text" or "content"; a table row holding "---"; a
\* table row with a cell text; a table row with a blank cell; any other line
FileLine(kind, text) == [kind |-> kind, text |-> text]

HeaderLine == FileLine("header", "text")

SeparatorLine == FileLine("separator", "---")

\* the chunks one line gives; index is the 0-based position of the line.
\* The header is skipped only as the first line and the separator only as
\* the second; elsewhere they are table rows like any other (lines 337-377)
ParseLine(line, index) ==
  IF line.kind = "blank" THEN <<>>
  ELSE IF index = 0 /\ line.kind = "header" THEN <<>>
  ELSE IF index = 1 /\ line.kind = "separator" THEN <<>>
  ELSE IF line.kind \in {"header", "separator", "row"} THEN <<line.text>>
  ELSE <<>>

\* rawChunks for the lines from position n on
RECURSIVE ParseLines(_, _)
ParseLines(lines, n) ==
  IF n > Len(lines) THEN <<>>
  ELSE ParseLine(lines[n], n - 1) \o ParseLines(lines, n + 1)

\* the data files ingested: an empty file, a table without content rows, a
\* table of two rows, a table of three rows among lines that are skipped, and
\* a table that starts on the second line
Documents ==
  {<<FileLine("blank", "")>>,
   <<HeaderLine, SeparatorLine>>,
   <<HeaderLine, SeparatorLine,
     FileLine("row", "Paris is the capital of France"),
     FileLine("row", "The sky is blue")>>,
   <<HeaderLine, SeparatorLine,
     FileLine("row", "Paris is the capital of France"),
     FileLine("empty_row", ""),
     FileLine("row", "Berlin is the capital of Germany"),
     FileLine("other", "a note"),
     FileLine("blank", ""),
     FileLine("row", "Rome is the capital of Italy")>>,
   <<FileLine("blank", ""), HeaderLine, SeparatorLine,
     FileLine("row", "The sky is blue")>>}

\* what the embedder returns for a text when it does not fail
EmbeddingFor(content) ==
  IF \E k \in 1..Len(ChunkPool) : ChunkPool[k].Content = content
    THEN ChunkPool[CHOOSE k \in 1..Len(ChunkPool) :
                     ChunkPool[k].Content = content].Embedding
    ELSE <<0, 0, 1, 0>>

\* what data_chunks holds before the run: nothing, two chunks, or four
\* chunks of which one has an empty and one an unreadable embedding_json
OldTables ==
  {<<>>,
   StoredRows(SubIndex({6, 7}, 1)),
   <<[ID |-> 1, Content |-> "Oslo is far north",
      EmbeddingJSON |-> MarshalEmbedding(<<3, 4, 0, 0>>)],
     [ID |-> 2, Content |-> "Lost embedding", EmbeddingJSON |-> EmptyJSON],
     [ID |-> 3, Content |-> "Old embedding", EmbeddingJSON |-> InvalidJSON],
     [ID |-> 4, Content |-> "The sky is blue",
      EmbeddingJSON |-> MarshalEmbedding(<<0, 1, 0, 0>>)]>>}

\* the server was started on the table as it was before the run
IngestInit ==
  /\ chats = [c \in ChatIds |-> [exists |-> FALSE, user_id |-> 0, title |-> NullTitle]]
  /\ messages = <<>>
  /\ dataChunksTable \in OldTables
  /\ dataChunks = GetAllDataChunks(dataChunksTable)
  /\ req = [p \in Procs |-> IdleRequest]
  /\ titleTasks = {}
  /\ ingest = IdleIngest

\* main with -ingest calls IngestDataFromFile (part_005 lines 46-49)
IN_Start ==
  /\ ingest.pc = "idle"
  /\ ingest' = [ingest EXCEPT !.pc = "parsing"]
  /\ UNCHANGED <<chats, messages, dataChunks, req, titleTasks, dataChunksTable>>

\* mutant for C38: the old chunks are deleted before the chunks are counted
IN_Parse_ClearsFirst ==
  /\ ingest.pc = "parsing"
  /\ \/ /\ ingest' = [ingest EXCEPT !.pc = "failed",
                                     !.result = "failed to read data file"]
        /\ UNCHANGED dataChunksTable
     \/ \E lines \in Documents :
          LET rawChunks == ParseLines(lines, 1)
          IN /\ ingest' = IF Len(rawChunks) = 0
                  THEN [ingest EXCEPT !.pc = "done", !.result = "ok"]
                  ELSE [ingest EXCEPT !.pc = "clearing", !.rawChunks = rawChunks]
             /\ dataChunksTable' = <<>>
  /\ UNCHANGED <<chats, messages, dataChunks, req, titleTasks>>

\* mutant for C26: embedding starts right after parsing
IN_Parse_StartsEmbedding ==
  /\ ingest.pc = "parsing"
  /\ \/ ingest' = [ingest EXCEPT !.pc = "failed",
                                  !.result = "failed to read data file"]
     \/ \E lines \in Documents :
          LET rawChunks == ParseLines(lines, 1)
          IN ingest' = IF Len(rawChunks) = 0
               THEN [ingest EXCEPT !.pc = "done", !.result = "ok"]
               ELSE [ingest EXCEPT !.pc = "embedding", !.i = 1,
                                   !.rawChunks = rawChunks]
  /\ UNCHANGED <<chats, messages, dataChunks, req, titleTasks, dataChunksTable>>

\* read the file and parse it (lines 330-384): a file that cannot be read
\* fails the run; a file without chunks ends it with 0 before anything is
\* deleted
IN_Parse ==
  /\ ingest.pc = "parsing"
  /\ \/ ingest' = [ingest EXCEPT !.pc = "failed",
                                  !.result = "failed to read data file"]
     \/ \E lines \in Documents :
          LET rawChunks == ParseLines(lines, 1)
          IN ingest' = IF Len(rawChunks) = 0
               THEN [ingest EXCEPT !.pc = "done", !.result = "ok"]
               ELSE [ingest EXCEPT !.pc = "clearing", !.rawChunks = rawChunks]
  /\ UNCHANGED <<chats, messages, dataChunks, req, titleTasks, dataChunksTable>>

\* mutant for C25: the old chunks are not deleted
IN_Clear_KeepsOld ==
  /\ ingest.pc = "clearing"
  /\ \E dbErr \in BOOLEAN :
       IF dbErr
         THEN ingest' = [ingest EXCEPT !.pc = "failed",
                           !.result = "failed to clear existing data chunks"]
         ELSE ingest' = [ingest EXCEPT !.pc = "embedding", !.i = 1,
                                       !.cleared = TRUE]
  /\ UNCHANGED <<chats, messages, dataChunks, req, titleTasks, dataChunksTable>>

\* ClearDataChunks (lines 388-390, 316-326)
IN_Clear ==
  /\ ingest.pc = "clearing"
  /\ \E dbErr \in BOOLEAN :
       IF dbErr
         THEN /\ ingest' = [ingest EXCEPT !.pc = "failed",
                              !.result = "failed to clear existing data chunks"]
              /\ UNCHANGED dataChunksTable
         ELSE /\ dataChunksTable' = <<>>
              /\ ingest' = [ingest EXCEPT !.pc = "embedding", !.i = 1,
                                          !.cleared = TRUE]
  /\ UNCHANGED <<chats, messages, dataChunks, req, titleTasks>>

\* mutant for C27: a run that ingested nothing fails
NextChunk_FailsWhenEmpty(run, count) ==
  IF run.i = Len(run.rawChunks)
    THEN IF count = 0
      THEN [run EXCEPT !.pc = "failed", !.i = run.i + 1,
                       !.result = "no chunks ingested"]
      ELSE [run EXCEPT !.pc = "done", !.i = run.i + 1, !.count = count,
                       !.result = "ok"]
    ELSE [run EXCEPT !.i = run.i + 1, !.count = count]

\* the run after the body of the loop for the chunk at position i
NextChunk(run, count) ==
  IF run.i = Len(run.rawChunks)
    THEN [run EXCEPT !.pc = "done", !.i = run.i + 1, !.count = count,
                     !.result = "ok"]
    ELSE [run EXCEPT !.i = run.i + 1, !.count = count]

\* mutant for C24: a failure on one chunk ends the run
IN_Embed_AbortOnFailure ==
  /\ ingest.pc = "embedding"
  /\ \E embedErr \in BOOLEAN, dbErr \in BOOLEAN :
       IF embedErr \/ dbErr
         THEN /\ ingest' = [ingest EXCEPT !.pc = "failed",
                              !.result = "failed to embed chunk"]
              /\ UNCHANGED dataChunksTable
         ELSE /\ dataChunksTable' =
                   createDataChunk(dataChunksTable, ingest.rawChunks[ingest.i],
                                   EmbeddingFor(ingest.rawChunks[ingest.i]))
              /\ ingest' = NextChunk(ingest, ingest.count + 1)
  /\ UNCHANGED <<chats, messages, dataChunks, req, titleTasks>>

\* one turn of the loop (lines 397-418): embed the chunk and insert it; a
\* failure of either skips the chunk; after the last chunk return the count
IN_Embed ==
  /\ ingest.pc = "embedding"
  /\ \E embedErr \in BOOLEAN, dbErr \in BOOLEAN :
       IF embedErr \/ dbErr
         THEN /\ ingest' = NextChunk(ingest, ingest.count)
              /\ UNCHANGED dataChunksTable
         ELSE /\ dataChunksTable' =
                   createDataChunk(dataChunksTable, ingest.rawChunks[ingest.i],
                                   EmbeddingFor(ingest.rawChunks[ingest.i]))
              /\ ingest' = NextChunk(ingest, ingest.count + 1)
  /\ UNCHANGED <<chats, messages, dataChunks, req, titleTasks>>

\* the server is started: NewRAGService loads the table (part_005 lines
\* 58-62, rag_service.go lines 25-41)
NewRAGService ==
  /\ dataChunks' = GetAllDataChunks(dataChunksTable)
  /\ UNCHANGED <<chats, messages, req, titleTasks, dataChunksTable, ingest>>

IngestNext ==
  \/ IN_Start
  \/ IN_Parse
  \/ IN_Clear
  \/ IN_Embed
  \/ NewRAGService
  \/ \E p \in Procs : GetRelevantContext(p)

IngestSpec == IngestInit /\ [][IngestNext]_vars

\* ------------------------------------ a turn whose gateway call is a wait
\* GR_Generate in two steps.  GetChatCompletion calls SendMessage with
\* context.Background() (part_002 lines 69, 90): the call has no deadline and
\* returns when the gateway answers.  GC_SendMessage is GenerateResponse up
\* to that call, GC_Response is the gateway's answer and what follows it.
GC_SendMessage(p) ==
  /\ req[p].pc = "gr_context"
  /\ IF Len(dataChunks) = 0
       THEN req' = [req EXCEPT ![p].pc = "gc_waiting"]
       ELSE \/ req' = [req EXCEPT ![p].pc = "gc_waiting",
                         ![p].embedCalled = TRUE, ![p].embedErr = TRUE]
            \/ \E queryEmbedding \in QueryEmbeddings :
                 \E relevantContext \in RankedContexts(dataChunks, queryEmbedding) :
                   req' = [req EXCEPT ![p].pc = "gc_waiting",
                             ![p].embedCalled = TRUE,
                             ![p].context = relevantContext]
  /\ UNCHANGED <<chats, messages, dataChunks, titleTasks, dataChunksTable, ingest>>

\* the gateway answers: SendMessage returns (part_002 lines 90-114)
GC_Response(p) ==
  /\ req[p].pc = "gc_waiting"
  /\ \E outcome \in CompletionOutcomes :
       req' = [req EXCEPT ![p] =
                 Completed(req[p], req[p].embedCalled, req[p].embedErr,
                           req[p].context, outcome)]
  /\ UNCHANGED <<chats, messages, dataChunks, titleTasks, dataChunksTable, ingest>>

\* PostMessage turns on one chat of user 1
TurnInit ==
  /\ chats = [c \in ChatIds |->
       IF c = "c1" THEN [exists |-> TRUE, user_id |-> 1, title |-> NullTitle]
       ELSE [exists |-> FALSE, user_id |-> 0, title |-> NullTitle]]
  /\ messages = <<>>
  /\ dataChunks = LoadedChunks
  /\ req = [p \in Procs |-> IdleRequest]
  /\ titleTasks = {}
  /\ dataChunksTable = StoredRows(dataChunks)
  /\ ingest = IdleIngest

TurnNext ==
  \/ \E p \in Procs, userID \in UserIds :
       \E userContent \in RequestContents(p) :
         PM_GetChat(p, "c1", userID, userContent)
  \/ \E p \in Procs : PM_StoreUser(p)
  \/ \E p \in Procs : GR_History(p)
  \/ \E p \in Procs : GC_SendMessage(p)
  \/ \E p \in Procs : GC_Response(p)
  \/ \E p \in Procs : PM_StoreModel(p)
  \/ \E p \in Procs : PM_Title(p)
  \/ \E t \in titleTasks : TT_Run(t)

\* every step the program takes by itself is taken: a request that can go
\* on goes on.  When the gateway answers is not the program's to decide, and
\* no timer of the program ends the wait, so GC_Response has no fairness.
TurnFairness ==
  \A p \in Procs :
    /\ WF_vars(PM_StoreUser(p))
    /\ WF_vars(GR_History(p))
    /\ WF_vars(GC_SendMessage(p))
    /\ WF_vars(PM_StoreModel(p))
    /\ WF_vars(PM_Title(p))

TurnSpec == TurnInit /\ [][TurnNext]_vars /\ TurnFairness

\* ------------------------------------------------------ SetMessageFeedback
\* UPDATE messages SET negative_feedback = ? WHERE id = ? (part_004 lines
\* 245-261): the error it returns and the table after it
UpdateMessageFeedback(messageID, negativeFeedback, dbErr) ==
  IF dbErr
    THEN [err |-> "failed to execute feedback update", messages |-> messages]
  ELSE IF PositionOf(messageID) = 0
    THEN [err |-> "message not found, feedback not updated", messages |-> messages]
  ELSE [err |-> "",
        messages |-> [messages EXCEPT ![PositionOf(messageID)].negative_feedback =
                                        negativeFeedback]]

\* the status MessageFeedbackHandler answers with for the error of
\* SetMessageFeedback (handlers.go lines 252-262)
FeedbackStatus(err) ==
  IF err = "" THEN "204 No Content"
  ELSE IF err = "message not found for feedback" THEN "404 Not Found"
  ELSE "500 Internal Server Error"

\* the message ids of feedback requests: the stored ones and one that no
\* message has
FeedbackMessageIds == 1..5

\* MessageFeedbackHandler with SetMessageFeedback, which passes the message
\* id and the flag to the store and makes no use of userID (part_001 lines
\* 179-182)
SetMessageFeedback(p, messageID, userID, negative) ==
  /\ req[p].pc = "idle"
  /\ \E dbErr \in BOOLEAN :
       LET updated == UpdateMessageFeedback(messageID, negative, dbErr)
       IN /\ messages' = updated.messages
          /\ req' = [req EXCEPT ![p] =
               Return([req[p] EXCEPT !.op = "SetMessageFeedback",
                                     !.messageID = messageID,
                                     !.userID = userID,
                                     !.feedbackErr = updated.err],
                      FeedbackStatus(updated.err))]
  /\ UNCHANGED <<chats, dataChunks, titleTasks, dataChunksTable, ingest>>

\* two chats of different users, each with one completed turn
FeedbackInit ==
  /\ chats = [c \in ChatIds |->
       [exists |-> TRUE, user_id |-> IF c = "c1" THEN 1 ELSE 2, title |-> NullTitle]]
  /\ messages =
       [i \in 1..4 |->
          [id |-> i, chat_id |-> IF i <= 2 THEN "c1" ELSE "c2",
           sender |-> IF i % 2 = 1 THEN "user" ELSE "model",
           content |-> IF i % 2 = 1 THEN "q0" ELSE ModelText,
           timestamp |-> i, negative_feedback |-> FALSE]]
  /\ dataChunks = <<>>
  /\ req = [p \in Procs |-> IdleRequest]
  /\ titleTasks = {}
  /\ dataChunksTable = <<>>
  /\ ingest = IdleIngest

FeedbackNext ==
  \E p \in Procs, messageID \in FeedbackMessageIds, userID \in UserIds :
    \E negative \in BOOLEAN :
      SetMessageFeedback(p, messageID, userID, negative)

FeedbackSpec == FeedbackInit /\ [][FeedbackNext]_vars

\* ===================================================================== claims
\* the chat row exists and belongs to the user
ChatOwnedBy(chatID, userID) ==
  chats[chatID].exists /\ chats[chatID].user_id = userID

\* the stored message with this id
MessageWithID(id) == messages[PositionOf(id)]

\* the request wrote nothing and called no gateway
NothingDone(r) ==
  /\ r.userMsgID = 0 /\ r.modelMsgID = 0
  /\ ~r.historyRead /\ ~r.embedCalled /\ ~r.generateCalled
  /\ ~r.storeModelErr /\ ~r.titleScheduled

\* every stored message is one of the initial conversation or was written by
\* the request that holds its id, into the chat of that request
EveryMessageAttributed ==
  \A i \in 1..Len(messages) :
    \/ /\ i <= 2 * MaxInitTurns
       /\ messages[1].content = "q0"
       /\ messages[i] = InitMessages(MaxInitTurns)[i]
    \/ \E q \in Procs :
         /\ messages[i].id \in {req[q].userMsgID, req[q].modelMsgID}
         /\ messages[i].chat_id = req[q].chatID

\* C1: PostMessage on a chat that does not exist or is not owned by the user
\* fails with "chat not found" (or with the failure of the lookup itself) and
\* does nothing else: it stores no message, reads no history, calls no
\* gateway and schedules no title task; every stored message and every title
\* task belongs to some other request.
C1_NotFoundWritesNothing ==
  /\ EveryMessageAttributed
  /\ \A t \in titleTasks : req[t.by].titleScheduled
  /\ \A p \in Procs :
       (req[p].op = "PostMessage" /\ ~ChatOwnedBy(req[p].chatID, req[p].userID)) =>
         /\ req[p].pc = "done"
         /\ req[p].result \in {"chat not found", "failed to verify chat"}
         /\ ~req[p].storeUserErr
         /\ NothingDone(req[p])

C1_Witness ==
  \E p \in Procs :
    /\ req[p].op = "PostMessage" /\ req[p].result = "chat not found"
    /\ chats[req[p].chatID].exists
    /\ ~ChatOwnedBy(req[p].chatID, req[p].userID)
    /\ \E q \in Procs : req[q].modelMsgID # 0 /\ req[q].chatID = req[p].chatID

\* C2: when the generation gateway fails during PostMessage, the content to
\* store is the fallback text, the stored model message has that content and
\* sender "model", and the failed generation does not make PostMessage return
\* an error (only a failed insert of the model message does).
C2_GatewayErrorGivesFallback ==
  \A p \in Procs :
    (req[p].op = "PostMessage" /\ req[p].generateErr) =>
      /\ req[p].pc = "store_model" => req[p].modelContent = PostMessageFallback
      /\ req[p].modelMsgID # 0 =>
           /\ PositionOf(req[p].modelMsgID) # 0
           /\ MessageWithID(req[p].modelMsgID).content = PostMessageFallback
           /\ MessageWithID(req[p].modelMsgID).sender = "model"
           /\ MessageWithID(req[p].modelMsgID).chat_id = req[p].chatID
      /\ req[p].pc = "done" =>
           \/ req[p].result = "ok" /\ req[p].modelMsgID # 0
           \/ req[p].result = "failed to store model message" /\ req[p].storeModelErr

C2_Witness ==
  \E p \in Procs :
    /\ req[p].op = "PostMessage" /\ req[p].generateErr
    /\ req[p].pc = "done" /\ req[p].result = "ok"
    /\ req[p].modelMsgID # 0
    /\ MessageWithID(req[p].modelMsgID).content = PostMessageFallback

\* the stored model message of the request, in its chat
HasModelReply(r) ==
  /\ r.modelMsgID # 0
  /\ PositionOf(r.modelMsgID) # 0
  /\ MessageWithID(r.modelMsgID).sender = "model"
  /\ MessageWithID(r.modelMsgID).chat_id = r.chatID

\* C3 as stated: a finished turn whose user message was stored has a stored
\* model message in the same chat, whatever the later calls did.
C3_Original_AlwaysAnswered ==
  \A p \in Procs :
    (req[p].pc = "done" /\ req[p].userMsgID # 0) => HasModelReply(req[p])

\* C3 amended: a finished turn whose user message was stored has a stored
\* model message in the same chat, placed after the user message, unless the
\* insert of the model message itself failed; no other outcome ends the turn
\* without a reply.
C3_AnsweredUnlessStoreFails ==
  \A p \in Procs :
    (req[p].pc = "done" /\ req[p].userMsgID # 0) =>
      /\ req[p].generateCalled
      /\ \/ /\ HasModelReply(req[p])
            /\ PositionOf(req[p].userMsgID) < PositionOf(req[p].modelMsgID)
         \/ req[p].storeModelErr /\ req[p].modelMsgID = 0

C3_Witness ==
  \E p \in Procs :
    /\ req[p].pc = "done" /\ req[p].userMsgID # 0
    /\ req[p].generateErr
    /\ HasModelReply(req[p])

\* C4: when the insert of the user message fails in PostMessage the request
\* ends with that error and has done nothing else: no history read, no
\* retrieval, no generation, no model message, no title task.
C4_UserStoreFailureAborts ==
  \A p \in Procs :
    (req[p].op = "PostMessage" /\ req[p].storeUserErr) =>
      /\ req[p].pc = "done"
      /\ req[p].result = "failed to store user message"
      /\ NothingDone(req[p])
      /\ \A t \in titleTasks : t.by # p

C4_Witness ==
  \E p \in Procs :
    /\ req[p].op = "PostMessage" /\ req[p].storeUserErr
    /\ req[p].pc = "done"
    /\ Len(messages) > 0

\* C5: CreateChat with a non-empty first message whose insert fails does not
\* report success.
C5_CreateChatReportsLostMessage ==
  \A p \in Procs :
    (req[p].op = "CreateChat" /\ req[p].storeUserErr /\ req[p].pc = "done") =>
      req[p].result # "ok"

\* C6: a turn's user message is stored before its generation call and before
\* its model message: whenever the turn has read history, called the gateway
\* or stored its model message, its user message is in the table, and the
\* model message comes after it in the same chat.
C6_InboundBeforeOutbound ==
  \A p \in Procs :
    /\ (req[p].historyRead \/ req[p].generateCalled \/ req[p].modelMsgID # 0) =>
         /\ req[p].userMsgID # 0
         /\ PositionOf(req[p].userMsgID) # 0
         /\ MessageWithID(req[p].userMsgID).sender = "user"
         /\ MessageWithID(req[p].userMsgID).chat_id = req[p].chatID
    /\ req[p].modelMsgID # 0 =>
         /\ HasModelReply(req[p])
         /\ PositionOf(req[p].userMsgID) < PositionOf(req[p].modelMsgID)
         /\ MessageWithID(req[p].userMsgID).timestamp
              < MessageWithID(req[p].modelMsgID).timestamp

\* two turns on one chat whose messages interleave
C6_Witness ==
  \E p, q \in Procs :
    /\ p # q /\ req[p].chatID = req[q].chatID
    /\ req[p].modelMsgID # 0 /\ req[q].modelMsgID # 0
    /\ PositionOf(req[p].userMsgID) < PositionOf(req[q].userMsgID)
    /\ PositionOf(req[q].modelMsgID) < PositionOf(req[p].modelMsgID)


\* C7: the history a request puts in the prompt holds at most HistoryLimit
\* messages of its chat, oldest first.
C7_HistoryAscending ==
  \A p \in Procs :
    req[p].generateCalled =>
      /\ Len(req[p].history) <= HistoryLimit
      /\ \A i, j \in 1..Len(req[p].history) :
           i < j => req[p].history[i].timestamp < req[p].history[j].timestamp

\* C8: the user message of the turn being processed is not one of the history
\* entries of its prompt, so the question is in the prompt once, as its last
\* turn.
C8_HistoryExcludesCurrentTurn ==
  \A p \in Procs :
    req[p].pc = "store_model" =>
      /\ \A i \in 1..Len(req[p].history) :
           req[p].history[i].id # req[p].userMsgID
      /\ Cardinality({i \in 1..Len(req[p].prompt) :
                        req[p].prompt[i].Text.question = req[p].content}) = 1

\* the prompt that holds nothing but the final user turn
FinalTurnOnly(r) ==
  <<[Role |-> "user", Text |-> FinalUserContent(r.context, r.content)]>>

\* the step of p stores the model message built from the generated content
\* and does not end the request with an error
StoresModelMessage(p) ==
  /\ messages' = Append(messages,
       [id |-> Len(messages) + 1, chat_id |-> req[p].chatID, sender |-> "model",
        content |-> req[p].modelContent, timestamp |-> Len(messages) + 1,
        negative_feedback |-> FALSE])
  /\ req'[p].modelMsgID = Len(messages) + 1
  /\ req'[p].result \in {"none", "ok"}

\* the step of p is the failed insert of the model message
ModelStoreFails(p) ==
  /\ messages' = messages
  /\ req'[p].storeModelErr
  /\ req'[p].modelMsgID = 0

\* C9: a failed history read does not end the turn: the request goes on to
\* retrieval with an empty history, the gateway is called with a prompt that
\* holds only the final user turn, and the next step stores the model message
\* (unless that insert itself fails).
C9_HistoryFailureDegrades ==
  [][\A p \in Procs :
       /\ (req[p].pc = "gr_history" /\ req'[p] # req[p]) =>
            /\ req'[p].pc = "gr_context"
            /\ req'[p].historyRead
            /\ req'[p].historyErr => req'[p].history = <<>>
       /\ (req[p].pc = "gr_context" /\ req[p].historyErr /\ req'[p] # req[p]) =>
            /\ req'[p].pc = "store_model"
            /\ req'[p].generateCalled
            /\ req'[p].historyErr
            /\ req'[p].prompt = FinalTurnOnly(req'[p])
       /\ (req[p].pc = "store_model" /\ req[p].historyErr /\ req'[p] # req[p]) =>
            StoresModelMessage(p) \/ ModelStoreFails(p)
    ]_vars

C9_Witness ==
  \E p \in Procs :
    /\ req[p].pc = "pm_title" /\ req[p].historyErr
    /\ Len(messages) > 2
    /\ HasModelReply(req[p])

\* C10: a failed query embedding does not end the turn: the context is empty,
\* the gateway is still called, the final user turn has the question-only
\* form, and the next step stores the model message (unless that insert
\* itself fails).
C10_RetrievalFailureDegrades ==
  [][\A p \in Procs :
       /\ (req[p].pc = "gr_context" /\ req'[p] # req[p]) =>
            /\ req'[p].pc = "store_model"
            /\ req'[p].generateCalled
            /\ req'[p].embedErr =>
                 /\ req'[p].embedCalled
                 /\ req'[p].context = <<>>
                 /\ req'[p].prompt # <<>>
                 /\ req'[p].prompt[Len(req'[p].prompt)] =
                      [Role |-> "user",
                       Text |-> [form |-> "question_only", context |-> <<>>,
                                 question |-> req[p].content]]
       /\ (req[p].pc = "store_model" /\ req[p].embedErr /\ req'[p] # req[p]) =>
            StoresModelMessage(p) \/ ModelStoreFails(p)
    ]_vars

C10_Witness ==
  \E p \in Procs :
    /\ req[p].pc = "pm_title" /\ req[p].embedErr
    /\ ~req[p].generateErr
    /\ HasModelReply(req[p])

C12_ConcurrentTurnsBothSchedule ==
  \A p, q \in Procs :
    (/\ p # q
     /\ req[p].pc = "pm_title" /\ req[q].pc = "pm_title"
     /\ req[p].chatID = req[q].chatID) =>
      FirstUserContent(GetLastNMessagesByChatID(req[p].chatID, TitleLookback)) # ""

\* C13 as stated: the title of a chat changes value at most once; as a title
\* starts as NULL and every write makes it non-NULL, that is: a title that has
\* been written never changes again.
C13_Original_TitleSetOnce ==
  [][\A c \in ChatIds :
       chats[c].title.valid => chats'[c].title = chats[c].title]_vars

\* C13 amended: a chat is created with the title unset, and its title changes
\* only in the step of a title task that was started for this chat and its
\* owner; the task writes a trimmed gateway text and is gone after that step,
\* so the title changes at most once per title task started for the chat
\* (which can be more than once: the tasks of two turns both write).
C13_TitleChangesOncePerTask ==
  [][\A c \in ChatIds :
       /\ (~chats[c].exists /\ chats'[c].exists) => chats'[c].title = NullTitle
       /\ chats'[c].title # chats[c].title =>
            /\ chats[c].exists /\ chats'[c].exists
            /\ \E t \in titleTasks :
                 /\ t.chatID = c /\ t.userID = chats[c].user_id
                 /\ titleTasks' = titleTasks \ {t}
            /\ \E raw \in RawTitles : chats'[c].title = ValidTitle(DerivedTitle(raw))
    ]_vars

\* a chat whose title was written by one task while the task of another turn
\* is still to run
C13_Witness ==
  \E c \in ChatIds :
    /\ chats[c].title.valid /\ chats[c].title.string # <<>>
    /\ \E t \in titleTasks : t.chatID = c /\ t.userID = chats[c].user_id
    /\ \A p \in Procs : req[p].pc = "done" /\ req[p].titleScheduled

\* C14: title derivation does not block the request that triggers it and
\* does not touch its result: the step that starts a title task is the step
\* in which PostMessage / CreateChat returns "ok", with the task still to run;
\* a returned request never changes again; and every step that ends a title
\* task or changes a title leaves every request as it was, whether the task
\* wrote a title, failed, or never runs at all.
C14_TitleTaskDetached ==
  [][/\ \A t \in titleTasks' \ titleTasks :
          /\ req[t.by].pc # "done"
          /\ req'[t.by].pc = "done"
          /\ req'[t.by].result = "ok"
          /\ req'[t.by].titleScheduled
     /\ \A p \in Procs : req[p].pc = "done" => req'[p] = req[p]
     /\ ((\E t \in titleTasks : t \notin titleTasks') \/
         (\E c \in ChatIds : chats'[c].title # chats[c].title)) => req' = req
    ]_vars

\* a CreateChat and a PostMessage that both returned "ok"; the task of one
\* has not run, the task of the other has written the title
C14_Witness ==
  \E p, q \in Procs :
    /\ req[p].pc = "done" /\ req[p].result = "ok" /\ req[p].titleScheduled
    /\ \E t \in titleTasks : t.by = p
    /\ req[q].pc = "done" /\ req[q].result = "ok" /\ req[q].titleScheduled
    /\ \A t \in titleTasks : t.by # q
    /\ req[p].op # req[q].op
    /\ chats[req[q].chatID].title.valid

\* C15: the step of a title task started for (chat, user) changes nothing but
\* the title of that chat: every other chat row, the owner and existence of
\* the chat itself, and every message stay as they were; and when the chat
\* does not exist or is not owned by that user (the update affects no row)
\* the whole stored state is unchanged.
C15_TitleTaskFrame ==
  [][\A t \in titleTasks :
       (titleTasks' = titleTasks \ {t}) =>
         /\ messages' = messages
         /\ dataChunks' = dataChunks
         /\ \A c \in ChatIds : c # t.chatID => chats'[c] = chats[c]
         /\ chats'[t.chatID].exists = chats[t.chatID].exists
         /\ chats'[t.chatID].user_id = chats[t.chatID].user_id
         /\ ~ChatOwnedBy(t.chatID, t.userID) => chats' = chats
    ]_vars

\* every task has run: the one for the owner of c1 wrote its title, and the
\* tasks for c2, which is missing or owned by someone else than the owner of
\* c1, found no row of that user or left its title
C15_Witness ==
  /\ titleTasks = {}
  /\ chats["c1"].exists /\ chats["c1"].title = ValidTitle(<<"T1">>)
  /\ \/ ~chats["c2"].exists
     \/ /\ chats["c2"].user_id # chats["c1"].user_id
        /\ chats["c2"].title = ValidTitle(<<"T0">>)

\* the responses of the title gateway that are not a text
FailedTitleResponses == {r \in TitleResponses : r.kind # "text"}

\* C16: when the title gateway fails or answers without candidates or
\* without text, the title task writes nothing: whichever task runs next, in
\* whatever state, on such a response, the chats table stays as it is; no
\* request carries the failure: a request that started a title task has the
\* result "ok" and keeps it.
C16_TitleGatewayFailureWritesNothing ==
  /\ \A t \in titleTasks : \A response \in FailedTitleResponses :
       \A dbErr \in BOOLEAN :
         /\ GenerateTitleForChat(response).err
         /\ generateAndSaveChatTitle(t, response, dbErr) = chats
  /\ \A p \in Procs :
       req[p].titleScheduled => req[p].pc = "done" /\ req[p].result = "ok"

\* the task of a request has run and the chat still has no title, while the
\* task of the other request on the same chat is still to run
C16_Witness ==
  \E p, q \in Procs :
    /\ req[p].titleScheduled /\ req[q].titleScheduled
    /\ req[p].chatID = req[q].chatID
    /\ \A t \in titleTasks : t.by # p
    /\ \E t \in titleTasks : t.by = q
    /\ chats[req[p].chatID].title = NullTitle

\* C17: a CreateChat that has returned has started the title task exactly
\* when its first exchange succeeded, that is when both the user message and
\* the model message were stored.
C17_ScheduledIffExchangeSucceeded ==
  \A p \in Procs :
    (req[p].op = "CreateChat" /\ req[p].pc = "done") =>
      (req[p].titleScheduled <=>
         (req[p].userMsgID # 0 /\ PositionOf(req[p].userMsgID) # 0
          /\ HasModelReply(req[p])))

\* C18: with an empty chunk index retrieval gives the empty context and no
\* error, without calling the embedding gateway, and the turn goes on: once
\* the request is past retrieval the generation gateway has been called, the
\* last turn of the prompt has the question-only form, and the request ends
\* with "ok" unless the insert of the model message itself fails.
C18_EmptyIndexGivesNoContext ==
  \A p \in Procs :
    (Len(dataChunks) = 0 /\ req[p].historyRead /\ req[p].pc # "gr_context") =>
      /\ req[p].generateCalled
      /\ ~req[p].embedCalled
      /\ req[p].pc \in {"store_model", "pm_title", "done"}
      /\ req[p].pc = "store_model" =>
           /\ ~req[p].embedErr
           /\ req[p].context = <<>>
           /\ req[p].prompt # <<>>
           /\ req[p].prompt[Len(req[p].prompt)] =
                [Role |-> "user",
                 Text |-> [form |-> "question_only", context |-> <<>>,
                           question |-> req[p].content]]
      /\ req[p].pc = "done" =>
           \/ req[p].result = "ok"
           \/ req[p].result = "failed to store model message" /\ req[p].storeModelErr

C18_Witness ==
  \E p \in Procs :
    /\ Len(dataChunks) = 0
    /\ req[p].pc = "done" /\ req[p].result = "ok"
    /\ req[p].generateCalled /\ ~req[p].generateErr /\ ~req[p].embedCalled
    /\ HasModelReply(req[p])
    /\ MessageWithID(req[p].modelMsgID).content = ModelText

\* a call of GetRelevantContext that has returned a context for an embedding
RetrievalReturned(r) ==
  r.pc = "done" /\ r.op = "GetRelevantContext" /\ r.embedCalled /\ ~r.embedErr

\* chunk i of the index has a score against the query embedding
HasScore(i, queryEmbedding) ==
  /\ Len(dataChunks[i].Embedding) > 0
  /\ Len(dataChunks[i].Embedding) = Len(queryEmbedding)

ScoreOf(i, queryEmbedding) ==
  CosineSimilarity(queryEmbedding, dataChunks[i].Embedding)

\* the score num / sqrt(den2) compared with T = ThresholdNum / ThresholdDen
ScoreBelowT(sim) ==
  \/ sim.num <= 0
  \/ ThresholdDen * ThresholdDen * sim.num * sim.num
       < ThresholdNum * ThresholdNum * sim.den2

ScoreEqualsT(sim) ==
  /\ sim.num > 0
  /\ ThresholdDen * ThresholdDen * sim.num * sim.num
       = ThresholdNum * ThresholdNum * sim.den2

\* the chunks of the index that score at T or above
ChunksAtOrAboveT(queryEmbedding) ==
  {i \in 1..Len(dataChunks) :
     HasScore(i, queryEmbedding) /\ ~ScoreBelowT(ScoreOf(i, queryEmbedding))}

\* the texts a context is made of
ContextTexts(context) == {context[j] : j \in 1..Len(context)}

\* C19: on a non-empty index whose chunks all score below T against the
\* query embedding, GetRelevantContext returns the empty context and no
\* error; a chunk that scores exactly T is kept: it is in the context
\* whenever fewer than NumRelevantChunks chunks score at T or above besides it.
C19_ThresholdIsInclusive ==
  \A p \in Procs :
    RetrievalReturned(req[p]) =>
      LET q == req[p].queryEmbedding
      IN /\ req[p].result = "ok"
         /\ Len(dataChunks) > 0
         /\ (\A i \in 1..Len(dataChunks) :
               HasScore(i, q) => ScoreBelowT(ScoreOf(i, q))) =>
              req[p].context = <<>>
         /\ \A i \in 1..Len(dataChunks) :
              (/\ HasScore(i, q) /\ ScoreEqualsT(ScoreOf(i, q))
               /\ Cardinality(ChunksAtOrAboveT(q)) <= NumRelevantChunks) =>
                dataChunks[i].Content \in ContextTexts(req[p].context)

\* on the index of a chunk that scores 0.7 and a chunk that scores 0.5: a
\* call that returned the first chunk, and a call for another embedding,
\* against which both score below T, that returned the empty context
C19_Witness ==
  \E p, q \in Procs :
    /\ dataChunks = SubIndex({3, 7}, 1)
    /\ RetrievalReturned(req[p]) /\ RetrievalReturned(req[q])
    /\ ScoreEqualsT(ScoreOf(1, req[p].queryEmbedding))
    /\ req[p].context = <<"Bern is the capital of Switzerland">>
    /\ req[q].queryEmbedding = <<0, 1, 0, 0>>
    /\ ScoreBelowT(ScoreOf(1, req[q].queryEmbedding))
    /\ ScoreBelowT(ScoreOf(2, req[q].queryEmbedding))
    /\ req[q].context = <<>> /\ req[q].result = "ok"

\* the chunk of the index a text of the context comes from
ChunkWithText(text) ==
  CHOOSE i \in 1..Len(dataChunks) : dataChunks[i].Content = text

\* C20: the context GetRelevantContext returns is made of the texts of
\* exactly min(NumRelevantChunks, n) different chunks of the index, n being
\* the number of chunks that score at T or above; every chunk in it scores at
\* T or above; no chunk left out scores strictly higher than a chunk in it;
\* and the texts are in descending order of score.
C20_TopKDescending ==
  \A p \in Procs :
    RetrievalReturned(req[p]) =>
      LET q == req[p].queryEmbedding
          context == req[p].context
          included == {ChunkWithText(context[j]) : j \in 1..Len(context)}
      IN /\ Len(context) = Min(NumRelevantChunks, Cardinality(ChunksAtOrAboveT(q)))
         /\ ContextTexts(context) \subseteq
              {dataChunks[i].Content : i \in ChunksAtOrAboveT(q)}
         /\ Cardinality(included) = Len(context)
         /\ \A o \in 1..Len(dataChunks) : \A i \in included :
              (HasScore(o, q) /\ o \notin included) =>
                ~SimilarityGreater(ScoreOf(o, q), ScoreOf(i, q))
         /\ \A j, k \in 1..Len(context) :
              j < k => ~SimilarityGreater(ScoreOf(ChunkWithText(context[k]), q),
                                          ScoreOf(ChunkWithText(context[j]), q))

\* more than NumRelevantChunks chunks score at T or above: the context holds
\* NumRelevantChunks of them and leaves out the one that scores exactly T
C20_Witness ==
  \E p \in Procs :
    /\ RetrievalReturned(req[p])
    /\ Cardinality(ChunksAtOrAboveT(req[p].queryEmbedding)) > NumRelevantChunks
    /\ Len(req[p].context) = NumRelevantChunks
    /\ req[p].context[NumRelevantChunks] = "Berlin is the capital of Germany"
    /\ "Bern is the capital of Switzerland" \notin ContextTexts(req[p].context)

\* two scores are equal
SameScore(a, b) == ~SimilarityGreater(a, b) /\ ~SimilarityGreater(b, a)

\* C21: ranking is stable: in the context GetRelevantContext returns, chunks
\* with equal scores are in the order of the index, and when chunks with
\* equal scores straddle the cut after NumRelevantChunks, the ones kept are
\* the ones that come first in the index.
C21_TiesKeepIndexOrder ==
  \A p \in Procs :
    RetrievalReturned(req[p]) =>
      LET q == req[p].queryEmbedding
          context == req[p].context
          included == {ChunkWithText(context[j]) : j \in 1..Len(context)}
      IN /\ \A j, k \in 1..Len(context) :
              (j < k /\ SameScore(ScoreOf(ChunkWithText(context[j]), q),
                                  ScoreOf(ChunkWithText(context[k]), q))) =>
                ChunkWithText(context[j]) < ChunkWithText(context[k])
         /\ \A o \in ChunksAtOrAboveT(q) \ included : \A i \in included :
              SameScore(ScoreOf(o, q), ScoreOf(i, q)) => i < o

\* the index without the chunks whose embedding is empty or has another
\* length than the query embedding
WithoutUnusable(chunks, queryEmbedding) ==
  LET Usable(c) == Len(c.Embedding) > 0 /\ Len(c.Embedding) = Len(queryEmbedding)
  IN SelectSeq(chunks, Usable)

\* C22: a chunk whose embedding is empty or has another length than the
\* query embedding is skipped and the query goes on: the call returns no
\* error, and what it returns is what the same call returns on the index
\* without those chunks.
C22_UnusableChunksSkipped ==
  \A p \in Procs :
    RetrievalReturned(req[p]) =>
      /\ req[p].result = "ok"
      /\ req[p].context \in
           RankedContexts(WithoutUnusable(dataChunks, req[p].queryEmbedding),
                          req[p].queryEmbedding)
      /\ RankedContexts(dataChunks, req[p].queryEmbedding) =
           RankedContexts(WithoutUnusable(dataChunks, req[p].queryEmbedding),
                          req[p].queryEmbedding)

\* an index with a chunk without embedding and a chunk with a shorter
\* embedding, and a call that returned the two chunks that score
C22_Witness ==
  \E p \in Procs :
    /\ dataChunks = SubIndex({1, 2, 8, 9}, 1)
    /\ RetrievalReturned(req[p])
    /\ req[p].context = <<"Paris is the capital of France",
                          "Berlin is the capital of Germany">>

\* the vectors a state holds: the query embeddings of the calls and the
\* embeddings of the chunks of the index
VectorsInState ==
  {req[p].queryEmbedding : p \in Procs} \cup
  {dataChunks[i].Embedding : i \in 1..Len(dataChunks)}

AllZero(vec) == \A i \in 1..Len(vec) : vec[i] = 0

\* C23: CosineSimilarity fails with "vectors cannot be empty" when either
\* vector has length 0, fails with "vectors must have the same dimension"
\* when both are non-empty and their lengths differ, and returns 0 and no
\* error when the lengths are equal and either vector is all zero; in every
\* other case it returns no error.
C23_SimilarityErrors ==
  \A a \in VectorsInState : \A b \in VectorsInState :
    LET sim == CosineSimilarity(a, b)
    IN IF Len(a) = 0 \/ Len(b) = 0
         THEN sim.err = "vectors cannot be empty"
       ELSE IF Len(a) # Len(b)
         THEN sim.err = "vectors must have the same dimension"
       ELSE IF AllZero(a) \/ AllZero(b)
         THEN sim.err = "" /\ sim.num = 0
       ELSE sim.err = "" /\ sim.den2 > 0

\* GetRelevantContext has returned for the all-zero embedding on an index
\* that holds a chunk without embedding, one with a shorter embedding and one
\* that scores against the other call's embedding
C23_Witness ==
  \E p, q \in Procs :
    /\ dataChunks = SubIndex({1, 8, 9}, 1)
    /\ RetrievalReturned(req[p]) /\ RetrievalReturned(req[q])
    /\ req[p].queryEmbedding = <<0, 0, 0, 0>>
    /\ req[p].context = <<>> /\ req[p].result = "ok"
    /\ req[q].context = <<"Paris is the capital of France">>

\* the contents of the persisted chunks, in table order
TableContents == [k \in 1..Len(dataChunksTable) |-> dataChunksTable[k].Content]

\* C24 (as stated): the count a run returns equals the number of chunks in
\* the persisted chunk set after the run. Violated by a run over a document
\* without candidate chunks, which returns 0 and leaves the old chunks.
C24_Original_CountIsPersisted ==
  ingest.pc = "done" => ingest.count = Len(dataChunksTable)

\* C24 (amended): in a run that has cleared the old chunks, every turn of the
\* embedding loop moves to the next row and either skips the chunk (embedding
\* or insert failed: table and count unchanged) or appends that chunk and
\* counts it; it never fails the run, and the count equals the number of
\* persisted chunks after every turn, so the count returned equals the number
\* of candidate chunks minus the skipped ones
C24_SkipOnlyThatChunk ==
  [][(ingest.pc = "embedding" /\ ingest' # ingest) =>
       /\ ingest'.i = ingest.i + 1
       /\ ingest'.pc = IF ingest.i = Len(ingest.rawChunks)
                         THEN "done" ELSE "embedding"
       /\ ingest'.result = IF ingest.i = Len(ingest.rawChunks)
                             THEN "ok" ELSE "none"
       /\ \/ /\ dataChunksTable' = dataChunksTable
             /\ ingest'.count = ingest.count
          \/ /\ dataChunksTable' =
                  Append(dataChunksTable,
                         [ID |-> Len(dataChunksTable) + 1,
                          Content |-> ingest.rawChunks[ingest.i],
                          EmbeddingJSON |-> MarshalEmbedding(
                              EmbeddingFor(ingest.rawChunks[ingest.i]))])
             /\ ingest'.count = ingest.count + 1
       /\ ingest'.count = Len(dataChunksTable')]_vars

\* a run of three candidate chunks ended after skipping the second one only
C24_Witness ==
  /\ ingest.pc = "done"
  /\ Len(ingest.rawChunks) = 3
  /\ ingest.count = 2
  /\ TableContents = <<ingest.rawChunks[1], ingest.rawChunks[3]>>

\* the row the run inserts for a candidate chunk as the k-th row of the table
RowOfRun(k, content) ==
  [ID |-> k, Content |-> content,
   EmbeddingJSON |-> MarshalEmbedding(EmbeddingFor(content))]

\* table holds rows of this run only: row k is the row made from a candidate
\* chunk among the first n, and later rows come from later chunks
RowsOfRunInOrder(table, rawChunks, n) ==
  \E f \in [1..Len(table) -> 1..n] :
    /\ \A j, k \in 1..Len(table) : j < k => f[j] < f[k]
    /\ \A k \in 1..Len(table) : table[k] = RowOfRun(k, rawChunks[f[k]])

\* C25: at every point after the Clearing step of a run (so also where a
\* crash would stop it in the middle of Embedding) the persisted chunk set
\* holds no row from before the run: its rows are rows inserted by this run
\* for candidate chunks already visited, in source-row order
C25_ClearedBeforeInsert ==
  ingest.cleared =>
    RowsOfRunInOrder(dataChunksTable, ingest.rawChunks, ingest.i - 1)

\* in the middle of Embedding, after four old chunks were deleted (the server
\* still holds them), the table holds the one chunk inserted so far
C25_Witness ==
  /\ ingest.pc = "embedding"
  /\ ingest.cleared
  /\ ingest.i = 2
  /\ Len(dataChunks) = 4
  /\ Len(dataChunksTable) = 1

\* C26 (as stated): every run that reaches Done has passed through Clearing.
\* Violated by a run over a document without candidate chunks, which goes
\* from Parsing to Done.
C26_Original_DoneAfterClearing == ingest.pc = "done" => ingest.cleared

\* the moves of a run: Idle, Parsing, Clearing, Embedding in that order, ending
\* in Done or Failed; Parsing ends in Done only when it found no chunk
IngestMoves ==
  {<<"idle", "parsing">>, <<"parsing", "clearing">>, <<"parsing", "done">>,
   <<"parsing", "failed">>, <<"clearing", "embedding">>,
   <<"clearing", "failed">>, <<"embedding", "embedding">>,
   <<"embedding", "done">>}

\* C26 (amended): a run moves through Idle, Parsing, Clearing, Embedding in
\* that order and ends in Done or Failed; Clearing starts only from Parsing
\* with the parsed chunks, embedding happens only after Clearing has finished,
\* the chunks are embedded one per step in source-row order starting with the
\* first, and a run reaches Done either from Embedding after its last chunk
\* or, when the document gave no candidate chunk, straight from Parsing
\* without Clearing
C26_IngestionOrder ==
  [][ingest' # ingest =>
       /\ <<ingest.pc, ingest'.pc>> \in IngestMoves
       /\ ingest'.pc = "clearing" => Len(ingest'.rawChunks) > 0
       /\ ingest.pc # "parsing" => ingest'.rawChunks = ingest.rawChunks
       /\ ingest.pc = "embedding" =>
            /\ ingest.cleared
            /\ ingest.i \in 1..Len(ingest.rawChunks)
            /\ ingest'.i = ingest.i + 1
       /\ (ingest.pc = "clearing" /\ ingest'.pc = "embedding") =>
            ingest'.cleared /\ ingest'.i = 1
       /\ ingest.pc # "clearing" => ingest'.cleared = ingest.cleared
       /\ ingest'.pc = "done" =>
            \/ /\ ingest.pc = "embedding"
               /\ ingest.i = Len(ingest.rawChunks)
            \/ /\ ingest.pc = "parsing"
               /\ Len(ingest'.rawChunks) = 0
               /\ ~ingest'.cleared]_vars

\* a run of three chunks reached Done after embedding all of them
C26_Witness ==
  /\ ingest.pc = "done"
  /\ ingest.cleared
  /\ ingest.i = 4
  /\ ingest.count = 3

\* the run persisted nothing: its document gave no candidate chunk, or it
\* cleared the table and every chunk was skipped
IngestedNothing ==
  \/ Len(ingest.rawChunks) = 0
  \/ ingest.cleared /\ Len(dataChunksTable) = 0

\* C27: a run that ends having ingested no chunk (no candidate chunk in the
\* document, or every chunk skipped) ends in Done with count 0 and no error;
\* a run fails only with the error of reading the file or of clearing the old
\* chunks, before any chunk was embedded and with count 0
C27_EmptyRunSucceeds ==
  /\ (ingest.pc = "done" /\ IngestedNothing) =>
       ingest.result = "ok" /\ ingest.count = 0
  /\ ingest.pc = "done" => ingest.result = "ok"
  /\ ingest.pc = "failed" =>
       /\ ingest.result \in {"failed to read data file",
                             "failed to clear existing data chunks"}
       /\ ingest.i = 0
       /\ ingest.count = 0
       /\ ~ingest.cleared
  /\ ingest.pc \in {"embedding", "done"} /\ ingest.cleared =>
       ingest.i > Len(ingest.rawChunks) <=> ingest.pc = "done"

\* a run of three candidate chunks ended in Done after skipping all of them
C27_Witness ==
  /\ ingest.pc = "done"
  /\ ingest.cleared
  /\ Len(ingest.rawChunks) = 3
  /\ Len(dataChunksTable) = 0
  /\ ingest.count = 0
  /\ ingest.result = "ok"

\* C28: a retrieval that starts after an ingestion run has replaced the
\* persisted chunks and completed ranks over the persisted chunks: every text
\* in the context it returns is the text of a persisted chunk, none is a
\* chunk that was loaded before the run and deleted by it
C28_RetrievalSeesNewChunks ==
  [][\A p \in Procs :
       (/\ ingest.pc = "done"
        /\ ingest.cleared
        /\ req[p].pc = "idle"
        /\ req'[p].pc = "done") =>
         \A k \in 1..Len(req'[p].context) :
           \E n \in 1..Len(dataChunksTable) :
             dataChunksTable[n].Content = req'[p].context[k]]_vars

\* the complete chunk sets: what was persisted before the run and, once the
\* run is over, what is persisted after it
CompleteSets ==
  {GetAllDataChunks(table) : table \in OldTables} \cup
    (IF ingest.pc \in {"done", "failed"}
       THEN {GetAllDataChunks(dataChunksTable)} ELSE {})

\* C29: the index a retrieval ranks over is a complete chunk set, the one
\* persisted before the ingestion run or the one persisted after it, never
\* the partly filled set of a run that is Clearing or Embedding
C29_RetrievalRanksCompleteSet ==
  [][\A p \in Procs :
       (req[p].pc = "idle" /\ req'[p].pc = "done") =>
         dataChunks \in CompleteSets]_vars

\* the texts of the persisted rows whose embedding_json is empty or unreadable
BadRowTexts ==
  UNION {{table[k].Content :
            k \in {j \in 1..Len(table) : table[j].EmbeddingJSON.kind # "array"}} :
         table \in OldTables}

C31_TurnReturnsWithoutAnswer ==
  \A p \in Procs : (req[p].pc = "gc_waiting") ~> (req[p].pc = "done")

\* C32: a feedback request for a stored message by a user who does not own
\* the chat of that message is answered NotFound and changes no message
C32_FeedbackOnlyByOwner ==
  [][\A p \in Procs :
       (/\ req[p].pc = "idle"
        /\ req'[p].op = "SetMessageFeedback"
        /\ PositionOf(req'[p].messageID) # 0
        /\ chats[messages[PositionOf(req'[p].messageID)].chat_id].user_id
             # req'[p].userID) =>
         /\ req'[p].result = "404 Not Found"
         /\ messages' = messages]_vars

\* C39: a feedback request for a message id that no message has (the store
\* finds no row to update) is answered 404 Not Found, not as an internal
\* failure
C39_UnknownMessageIsNotFound ==
  \A p \in Procs :
    (/\ req[p].pc = "done"
     /\ req[p].op = "SetMessageFeedback"
     /\ req[p].feedbackErr = "message not found, feedback not updated") =>
      req[p].result = "404 Not Found"

\* the canned texts GetChatCompletion returns for a response without text
CannedResponses == {EmptyResponseText, NonTextResponseText}

\* C33: every persisted message of sender "model" has a non-empty content,
\* and for a successful response of the gateway without candidates, without
\* a text part or with an empty text GetChatCompletion returns a canned text
\* and no error, whatever prompt the requests in progress have built
C33_ModelContentNonEmpty ==
  /\ \A i \in 1..Len(messages) :
       messages[i].sender = "model" => messages[i].content # ""
  /\ \A p \in Procs : \A outcome \in {"no_candidates", "non_text", "empty_text"} :
       LET promptHistory ==
             GeminiChatHistory(req[p].history, req[p].context, req[p].content)
       IN /\ ~GetChatCompletion(promptHistory, outcome).err
          /\ GetChatCompletion(promptHistory, outcome).text \in CannedResponses

\* a turn stored a model message holding the canned text of a response that
\* had no text
C33_Witness ==
  \E p \in Procs :
    /\ req[p].pc = "done"
    /\ req[p].generateCalled
    /\ ~req[p].generateErr
    /\ req[p].modelMsgID # 0
    /\ MessageWithID(req[p].modelMsgID).content = NonTextResponseText

\* C34: a PostMessage turn whose insert of the model message failed has
\* returned the error of that insert, has stored no model message, has not
\* scheduled a title task, and its user message is still stored in its chat
C34_ModelStoreFailureKeepsUserMessage ==
  \A p \in Procs :
    (req[p].op = "PostMessage" /\ req[p].storeModelErr) =>
      /\ req[p].pc = "done"
      /\ req[p].result = "failed to store model message"
      /\ req[p].modelMsgID = 0
      /\ ~req[p].titleScheduled
      /\ \A t \in titleTasks : t.by # p
      /\ PositionOf(req[p].userMsgID) # 0
      /\ MessageWithID(req[p].userMsgID).sender = "user"
      /\ MessageWithID(req[p].userMsgID).chat_id = req[p].chatID

\* a turn on an untitled chat ended with the failed insert of its model
\* message while its user message is the last message of the chat
C34_Witness ==
  \E p \in Procs :
    /\ req[p].op = "PostMessage"
    /\ req[p].storeModelErr
    /\ req[p].generateCalled
    /\ TitleUnset(chats[req[p].chatID].title)
    /\ GetLastNMessagesByChatID(req[p].chatID, 1)[1].id = req[p].userMsgID

\* C35: in the step in which a PostMessage turn schedules a title task, the
\* persisted title of its chat is unset or empty
C35_ScheduledOnlyWhenUntitled ==
  [][\A p \in Procs :
       (/\ req[p].pc = "pm_title"
        /\ req'[p].titleScheduled
        /\ titleTasks' # titleTasks) =>
         TitleUnset(chats[req[p].chatID].title)]_vars

\* the positions of the user messages of a chat
UserMessagesOf(chatID) ==
  {i \in 1..Len(messages) :
     messages[i].chat_id = chatID /\ messages[i].sender = "user"}

\* the content of the earliest user message of a chat that has one
EarliestUserContent(chatID) ==
  messages[CHOOSE i \in UserMessagesOf(chatID) :
             \A j \in UserMessagesOf(chatID) :
               messages[i].timestamp <= messages[j].timestamp].content

\* C36: the title task a PostMessage turn schedules has as seed text the
\* content of the earliest user message of the chat
C36_SeedIsFirstUserMessage ==
  [][\A p \in Procs :
       (req[p].pc = "pm_title" /\ req'[p].titleScheduled) =>
         \A t \in titleTasks' \ titleTasks :
           t.basisContent = EarliestUserContent(req[p].chatID)]_vars

\* C37: every title a title task writes is a non-empty string
C37_WrittenTitleNonEmpty ==
  [][\A c \in ChatIds :
       chats'[c].title # chats[c].title =>
         chats'[c].title.valid /\ chats'[c].title.string # <<>>]_vars

\* C38: no step of an ingestion run whose document yields no candidate chunk
\* changes the persisted chunk set: from its start to its end in Done the
\* table keeps the rows it had, none deleted and none added
C38_EmptyDocumentKeepsChunks ==
  [][(/\ ingest' # ingest
      /\ ingest'.pc \in {"parsing", "done"}
      /\ Len(ingest'.rawChunks) = 0) =>
       /\ dataChunksTable' = dataChunksTable
       /\ ~ingest'.cleared
       /\ ingest'.count = 0]_vars

\* a run over a document without candidate chunks ended in Done and the four
\* old chunks are still persisted
C38_Witness ==
  /\ ingest.pc = "done"
  /\ ingest.result = "ok"
  /\ Len(ingest.rawChunks) = 0
  /\ ~ingest.cleared
  /\ Len(dataChunksTable) = 4

====
